---- MODULE Spec2Model ----
(***************************************************************************)
(* go-notify-server: the subscription store (SQLite tables subscriptions   *)
(* and delivery_log), the HTTP handlers that call it, the push fan-out of  *)
(* sendToSubscriptions and the shutdown sequence of main.                  *)
(***************************************************************************)
EXTENDS Integers, Sequences, FiniteSets, TLC

VARIABLES
    subs,        \* table subscriptions: a set of rows
    dlog,        \* table delivery_log: rows in insertion order
    logSeq,      \* AUTOINCREMENT counter of delivery_log.id
    nextId,      \* number of ids drawn from randomID so far
    now,         \* the wall clock, datetime('now')
    wg,          \* Server.WG, the WaitGroup counter
    calls,       \* the request handlers (and the goroutines they start)
    mainPc,      \* position of main in its startup/shutdown sequence
    pushBudget,  \* push-service responses the environment still delivers
    env          \* the configured VAPID keys and what parsing them returned

vars == <<subs, dlog, logSeq, nextId, now, wg, calls, mainPc, pushBudget,
          env>>

-----------------------------------------------------------------------------
(* Bounds of the model *)

MaxCalls == 2
MaxTime == 1
NumRacers == 3
NumBatchSubs == 2
NumFanSubs == 11
SemPushBudget == 1
MaxShutdownCalls == 1
NumConcCalls == 2
NumTopicSubs == 3
MaxTopicCalls == 2
MaxPurgeCalls == 2
MaxLogCalls == 2
NumListSubs == 2
MaxListCalls == 2
MaxAuthCalls == 2
MaxRegCalls == 2
MaxStartCalls == 2
NumPayloadSubs == 2
NumHangSubs == 2
NumSnapshotSubs == 1
MaxWelcomeCalls == 2

(* Program constants *)

pushConcurrency == 10
StatusNotFound == 404
StatusGone == 410
StatusOK == 200
StatusCreated == 201
StatusNoContent == 204
StatusBadRequest == 400
StatusUnauthorized == 401
StatusUnsupportedMediaType == 415
StatusInternalServerError == 500

Endpoints == {1, 2}
Topics == {"", "news"}

\* (topic, p256dh, auth) triples a registration request may carry
UpsertInputs == { <<"", "p1", "a1">>, <<"news", "p2", "a2">> }

\* what webpush.SendNotification returns: (resp, err); resp is nil (code -1)
\* when err is not nil
PushReturns ==
    { [err |-> "unreachable", code |-> -1] }
      \cup { [err |-> "", code |-> s] : s \in {201, 404, 410, 500} }

\* the statuses at and next to the boundaries of the classification
BoundaryStatuses ==
    {100, 199, 200, 204, 299, 300, 403, 404, 405, 409, 410, 411, 500}

PushReturnsAnyStatus ==
    { [err |-> "unreachable", code |-> -1] }
      \cup { [err |-> "", code |-> s] : s \in BoundaryStatuses }

NoRow == 0

-----------------------------------------------------------------------------
(* The SQL statements of the store *)

RowsByEndpoint(rows, endpoint) == { r \in rows : r.endpoint = endpoint }

\* the statement with key_auth missing from its SET list
UpsertRowsKeepAuth(rows, newID, topic, endpoint, p256dh, auth, ts) ==
    IF RowsByEndpoint(rows, endpoint) = {}
    THEN rows \cup { [id |-> newID, topic |-> topic, endpoint |-> endpoint,
                      key_p256dh |-> p256dh, key_auth |-> auth,
                      created_at |-> ts] }
    ELSE { IF r.endpoint = endpoint
           THEN [r EXCEPT !.topic = topic, !.key_p256dh = p256dh]
           ELSE r : r \in rows }

\* the statement against a schema without UNIQUE(endpoint): a plain insert
UpsertRowsNoConflict(rows, newID, topic, endpoint, p256dh, auth, ts) ==
    rows \cup { [id |-> newID, topic |-> topic, endpoint |-> endpoint,
                 key_p256dh |-> p256dh, key_auth |-> auth, created_at |-> ts] }

\* INSERT INTO subscriptions ... ON CONFLICT(endpoint) DO UPDATE SET topic,
\* key_p256dh, key_auth; the conflict target is the UNIQUE(endpoint)
\* constraint of the schema
UpsertRows(rows, newID, topic, endpoint, p256dh, auth, ts) ==
    IF RowsByEndpoint(rows, endpoint) = {}
    THEN rows \cup { [id |-> newID, topic |-> topic, endpoint |-> endpoint,
                      key_p256dh |-> p256dh, key_auth |-> auth,
                      created_at |-> ts] }
    ELSE { IF r.endpoint = endpoint
           THEN [r EXCEPT !.topic = topic, !.key_p256dh = p256dh,
                          !.key_auth = auth]
           ELSE r : r \in rows }

\* SELECT id FROM subscriptions WHERE endpoint = ? ; NoRow is sql.ErrNoRows
SelectIdByEndpoint(rows, endpoint) ==
    IF RowsByEndpoint(rows, endpoint) = {}
    THEN NoRow
    ELSE (CHOOSE r \in RowsByEndpoint(rows, endpoint) : TRUE).id

\* created decided from RowsAffected alone, which is always 1
IsCreatedByRows(actualID, newID, rowsAffected) == rowsAffected > 0

\* created = (actualID == newID) && rows > 0
IsCreated(actualID, newID, rowsAffected) ==
    actualID = newID /\ rowsAffected > 0

\* the statement without its WHERE clause
DeleteRowsEveryEndpoint(rows, endpoint) == {}

\* DELETE FROM subscriptions WHERE endpoint = ?
DeleteRowsByEndpoint(rows, endpoint) == { r \in rows : r.endpoint # endpoint }

\* DELETE FROM subscriptions WHERE id = ?
DeleteRowsByID(rows, id) == { r \in rows : r.id # id }

-----------------------------------------------------------------------------
(* 64-bit integers: a value is its limbs in base 2^16, least significant
   first; int64 and time.Duration arithmetic wraps modulo 2^64 *)

LimbBase == 65536

Int64Limbs == 4

ZeroLimbs(n) == [k \in 1..n |-> 0]

RECURSIVE MulAdd(_, _, _)
\* x * c + carry modulo LimbBase^Len(x), for c and carry below 2^14
MulAdd(x, c, carry) ==
    IF x = <<>> THEN <<>>
    ELSE LET t == Head(x) * c + carry
         IN <<t % LimbBase>> \o MulAdd(Tail(x), c, t \div LimbBase)

RECURSIVE DivRem(_, _)
\* quotient and remainder of x by c, for c below 2^14
DivRem(x, c) ==
    IF x = <<>> THEN [q |-> <<>>, r |-> 0]
    ELSE LET hi == DivRem(Tail(x), c)
             t == hi.r * LimbBase + Head(x)
         IN [q |-> <<t \div c>> \o hi.q, r |-> t % c]

\* x >= 2^63, x of at least four limbs
AtLeast2p63(x) ==
    \/ x[Int64Limbs] >= LimbBase \div 2
    \/ \E k \in DOMAIN x : k > Int64Limbs /\ x[k] > 0

\* math.MaxInt64
MaxInt64 == <<LimbBase - 1, LimbBase - 1, LimbBase - 1, (LimbBase \div 2) - 1>>

\* two's complement negation of a 64-bit value
Negate(x) == MulAdd([k \in DOMAIN x |-> LimbBase - 1 - x[k]], 1, 1)

\* a number of seconds beyond every time of the model
FarSeconds == LimbBase * (LimbBase \div 4)

\* an unsigned value as a number, FarSeconds when it is that large
Clamp(x) ==
    IF \A k \in DOMAIN x : k > 2 => x[k] = 0
    THEN IF x[2] < LimbBase \div 4 THEN x[2] * LimbBase + x[1] ELSE FarSeconds
    ELSE FarSeconds

-----------------------------------------------------------------------------
(* Purge of the delivery log; a token is the sequence of its characters *)

DigitChars == <<"0", "1", "2", "3", "4", "5", "6", "7", "8", "9">>

IsDigit(ch) == \E k \in DOMAIN DigitChars : DigitChars[k] = ch

DigitValue(ch) == (CHOOSE k \in DOMAIN DigitChars : DigitChars[k] = ch) - 1

UnitChars == {"d", "h", "m"}

\* a pattern that takes any letter after the digits for a unit
MatchesAnyUnit(token) ==
    /\ Len(token) >= 2
    /\ ~IsDigit(token[Len(token)])
    /\ \A k \in 1..(Len(token) - 1) : IsDigit(token[k])

\* durationRe: ^(\d+)([dhm])$
Matches(token) ==
    /\ Len(token) >= 2
    /\ token[Len(token)] \in UnitChars
    /\ \A k \in 1..(Len(token) - 1) : IsDigit(token[k])

RECURSIVE DigitsValue(_, _)
DigitsValue(digits, acc) ==
    IF digits = <<>> THEN acc
    ELSE DigitsValue(Tail(digits), MulAdd(acc, 10, DigitValue(Head(digits))))

\* strconv.Atoi of a string of digits, its error dropped: the value, or
\* math.MaxInt64 when the value is out of range
Atoi(digits) ==
    LET v == DigitsValue(digits, ZeroLimbs(Int64Limbs + 2))
    IN IF AtLeast2p63(v) THEN MaxInt64 ELSE SubSeq(v, 1, Int64Limbs)

SecondsPerMinute == 60
MinutesPerHour == 60
HoursPerDay == 24

\* x * time.Second, in nanoseconds
TimesSecond(x) == MulAdd(MulAdd(MulAdd(x, 1000, 0), 1000, 0), 1000, 0)

\* x * time.Minute and x * time.Hour
TimesMinute(x) == TimesSecond(MulAdd(x, SecondsPerMinute, 0))
TimesHour(x) == TimesMinute(MulAdd(x, MinutesPerHour, 0))

\* parseDuration: the time.Duration (int64 nanoseconds) of a token
parseDuration(token) ==
    IF ~Matches(token)
    THEN [ok |-> FALSE, dur |-> ZeroLimbs(Int64Limbs)]
    ELSE LET n == Atoi(SubSeq(token, 1, Len(token) - 1))
             unit == token[Len(token)]
         IN [ok |-> TRUE,
             dur |-> IF unit = "d" THEN TimesHour(MulAdd(n, HoursPerDay, 0))
                     ELSE IF unit = "h" THEN TimesHour(n)
                     ELSE TimesMinute(n)]

\* the second that time.Now().UTC().Add(-olderThan) is formatted to, for a
\* clock at second sec and nanosecond nanos; Add is exact, Format drops the
\* nanoseconds
CutoffSecond(sec, nanos, olderThan) ==
    LET x == Negate(olderThan)
        negative == AtLeast2p63(x)
        magnitude == IF negative THEN Negate(x) ELSE x
        d1 == DivRem(magnitude, 1000)
        d2 == DivRem(d1.q, 1000)
        d3 == DivRem(d2.q, 1000)
        q == Clamp(d3.q)
        r == (d3.r * 1000 + d2.r) * 1000 + d1.r
    IN IF negative
       THEN sec - q - (IF r > nanos THEN 1 ELSE 0)
       ELSE sec + q + (IF nanos + r >= 1000 * 1000 * 1000 THEN 1 ELSE 0)

\* DELETE FROM delivery_log WHERE sent_at < ? : the rows that stay
RowsKept(rows, cutoff) == SelectSeq(rows, LAMBDA row : row.sent_at >= cutoff)

-----------------------------------------------------------------------------
(* VAPID keys: GenerateVAPIDKeys and ParseVAPIDKeys.  A curve of the shape of
   P-256 (a = -3, prime order, cofactor 1) over a field of two bytes stands
   for elliptic.P256(): an uncompressed point takes 1 + 2 * FieldBytes = 5
   bytes and a scalar FieldBytes = 2 bytes, which leave, as the 65 and 32
   bytes of P-256 do, two bytes over in the last base64 group. *)

FieldPrime == 269
CurveA == FieldPrime - 3
CurveB == 15
GeneratorX == 1
GeneratorY == 33
GroupOrder == 283
FieldBytes == 2

\* the alphabet of base64.RawURLEncoding
URLAlphabet ==
    << "A", "B", "C", "D", "E", "F", "G", "H", "I", "J", "K", "L", "M",
       "N", "O", "P", "Q", "R", "S", "T", "U", "V", "W", "X", "Y", "Z",
       "a", "b", "c", "d", "e", "f", "g", "h", "i", "j", "k", "l", "m",
       "n", "o", "p", "q", "r", "s", "t", "u", "v", "w", "x", "y", "z",
       "0", "1", "2", "3", "4", "5", "6", "7", "8", "9", "-", "_" >>

\* an encoding that pads the last group with =
RECURSIVE EncodeToStringPadded(_)
EncodeToStringPadded(bytes) ==
    LET ch(v) == URLAlphabet[v + 1] IN
    IF Len(bytes) = 0 THEN <<>>
    ELSE IF Len(bytes) = 1
    THEN << ch(bytes[1] \div 4), ch((bytes[1] % 4) * 16), "=", "=" >>
    ELSE IF Len(bytes) = 2
    THEN << ch(bytes[1] \div 4),
            ch((bytes[1] % 4) * 16 + bytes[2] \div 16),
            ch((bytes[2] % 16) * 4), "=" >>
    ELSE << ch(bytes[1] \div 4),
            ch((bytes[1] % 4) * 16 + bytes[2] \div 16),
            ch((bytes[2] % 16) * 4 + bytes[3] \div 64),
            ch(bytes[3] % 64) >>
           \o EncodeToStringPadded(SubSeq(bytes, 4, Len(bytes)))

RECURSIVE EncodeToString(_)
\* base64.RawURLEncoding.EncodeToString: four characters for three bytes,
\* two or three characters for a last group of one or two bytes, no padding
EncodeToString(bytes) ==
    LET ch(v) == URLAlphabet[v + 1] IN
    IF Len(bytes) = 0 THEN <<>>
    ELSE IF Len(bytes) = 1
    THEN << ch(bytes[1] \div 4), ch((bytes[1] % 4) * 16) >>
    ELSE IF Len(bytes) = 2
    THEN << ch(bytes[1] \div 4),
            ch((bytes[1] % 4) * 16 + bytes[2] \div 16),
            ch((bytes[2] % 16) * 4) >>
    ELSE << ch(bytes[1] \div 4),
            ch((bytes[1] % 4) * 16 + bytes[2] \div 16),
            ch((bytes[2] % 16) * 4 + bytes[3] \div 64),
            ch(bytes[3] % 64) >>
           \o EncodeToString(SubSeq(bytes, 4, Len(bytes)))

\* the value of a character of the alphabet, -1 for any other
SextetOf(char) ==
    IF \E v \in DOMAIN URLAlphabet : URLAlphabet[v] = char
    THEN (CHOOSE v \in DOMAIN URLAlphabet : URLAlphabet[v] = char) - 1
    ELSE -1

RECURSIVE DecodeSextets(_)
\* the bytes of a sequence of six-bit values; the bits left over in a last
\* group of two or three values are dropped
DecodeSextets(v) ==
    IF Len(v) < 2 THEN <<>>
    ELSE IF Len(v) = 2 THEN << v[1] * 4 + v[2] \div 16 >>
    ELSE IF Len(v) = 3
    THEN << v[1] * 4 + v[2] \div 16, (v[2] % 16) * 16 + v[3] \div 4 >>
    ELSE << v[1] * 4 + v[2] \div 16, (v[2] % 16) * 16 + v[3] \div 4,
            (v[3] % 4) * 64 + v[4] >>
           \o DecodeSextets(SubSeq(v, 5, Len(v)))

\* base64.RawURLEncoding.DecodeString: carriage returns and line feeds are
\* skipped, any other character outside the alphabet (the padding = too) and
\* a last group of one character are errors
DecodeString(str) ==
    LET chars == SelectSeq(str, LAMBDA ch : ch \notin {"\r", "\n"})
        v == [n \in DOMAIN chars |-> SextetOf(chars[n])]
    IN IF (\E n \in DOMAIN v : v[n] = -1) \/ Len(v) % 4 = 1
       THEN [ok |-> FALSE, bytes |-> <<>>]
       ELSE [ok |-> TRUE, bytes |-> DecodeSextets(v)]

RECURSIVE FillBytes(_, _)
\* big.Int.FillBytes: the value in n bytes, big-endian, zero-padded
FillBytes(value, n) ==
    IF n = 0 THEN <<>>
    ELSE Append(FillBytes(value \div 256, n - 1), value % 256)

RECURSIVE SetBytes(_)
\* big.Int.SetBytes: the value of a big-endian byte string
SetBytes(bytes) ==
    IF Len(bytes) = 0 THEN 0
    ELSE SetBytes(SubSeq(bytes, 1, Len(bytes) - 1)) * 256 + bytes[Len(bytes)]

\* arithmetic of the field
Mod(value) == value % FieldPrime

Inverse(value) ==
    CHOOSE w \in 1..(FieldPrime - 1) : Mod(w * Mod(value)) = 1

\* a test that lets every pair of coordinates pass
IsOnCurveAlways(x, y) == TRUE

\* Curve.IsOnCurve: y^2 = x^3 - 3x + b
IsOnCurve(x, y) ==
    Mod(y * y) = Mod(Mod(Mod(x * x) * x) + Mod(CurveA * x) + CurveB)

Infinity == [inf |-> TRUE, x |-> 0, y |-> 0]

\* the sum of two points of the curve
Add(p, q) ==
    IF p.inf THEN q
    ELSE IF q.inf THEN p
    ELSE IF p.x = q.x /\ Mod(p.y + q.y) = 0 THEN Infinity
    ELSE LET slope == IF p.x = q.x
                      THEN Mod(Mod(3 * Mod(p.x * p.x) + CurveA)
                                 * Inverse(2 * p.y))
                      ELSE Mod(Mod(q.y - p.y + FieldPrime)
                                 * Inverse(q.x - p.x + FieldPrime))
             x == Mod(Mod(slope * slope) + 2 * FieldPrime - p.x - q.x)
         IN [inf |-> FALSE, x |-> x,
             y |-> Mod(Mod(slope * Mod(p.x - x + FieldPrime))
                         + FieldPrime - p.y)]

RECURSIVE ScalarMult(_, _)
ScalarMult(k, p) ==
    IF k = 0 THEN Infinity
    ELSE IF k % 2 = 0 THEN ScalarMult(k \div 2, Add(p, p))
    ELSE Add(p, ScalarMult(k - 1, p))

\* the public point of the private scalar d
ScalarBaseMult(d) ==
    ScalarMult(d, [inf |-> FALSE, x |-> GeneratorX, y |-> GeneratorY])

\* elliptic.Marshal: the uncompressed form 0x04 || X || Y
Marshal(x, y) == <<4>> \o FillBytes(x, FieldBytes) \o FillBytes(y, FieldBytes)

\* elliptic.Unmarshal: nil (ok FALSE) unless the bytes are the uncompressed
\* form of a point of the curve
Unmarshal(bytes) ==
    LET x == SetBytes(SubSeq(bytes, 2, 1 + FieldBytes))
        y == SetBytes(SubSeq(bytes, 2 + FieldBytes, 1 + 2 * FieldBytes))
    IN IF /\ Len(bytes) = 1 + 2 * FieldBytes
          /\ bytes[1] = 4
          /\ x < FieldPrime /\ y < FieldPrime
          /\ IsOnCurve(x, y)
       THEN [ok |-> TRUE, x |-> x, y |-> y]
       ELSE [ok |-> FALSE, x |-> 0, y |-> 0]

NoKey == [x |-> 0, y |-> 0, d |-> 0]

\* GenerateVAPIDKeys when ecdsa.GenerateKey draws the scalar d
GenerateVAPIDKeys(d) ==
    LET pub == ScalarBaseMult(d) IN
    [publicKey |-> EncodeToString(Marshal(pub.x, pub.y)),
     privateKey |-> EncodeToString(FillBytes(d, FieldBytes))]

\* ParseVAPIDKeys: the key and the error it returns
ParseVAPIDKeys(publicKeyB64, privateKeyB64) ==
    LET pubBytes == DecodeString(publicKeyB64)
        point == Unmarshal(pubBytes.bytes)
        privBytes == DecodeString(privateKeyB64)
    IN IF ~pubBytes.ok
       THEN [key |-> NoKey, err |-> "decode VAPID public key"]
       ELSE IF ~point.ok
       THEN [key |-> NoKey, err |-> "invalid VAPID public key"]
       ELSE IF ~privBytes.ok
       THEN [key |-> NoKey, err |-> "decode VAPID private key"]
       ELSE [key |-> [x |-> point.x, y |-> point.y,
                      d |-> SetBytes(privBytes.bytes)],
             err |-> ""]

\* the environment of a process: VAPID_PUBLIC_KEY, VAPID_PRIVATE_KEY, and
\* what ParseVAPIDKeys returned for them (parsed FALSE: not called yet);
\* welcome is Server.WelcomeMessage, which main leaves empty
EnvOf(keys) ==
    [publicKey |-> keys.publicKey, privateKey |-> keys.privateKey,
     parsed |-> FALSE, key |-> NoKey, err |-> "", welcome |-> ""]

\* the environment of a server that has started: keys that parse
ServingEnv ==
    LET keys == GenerateVAPIDKeys(1)
        got == ParseVAPIDKeys(keys.publicKey, keys.privateKey)
    IN [EnvOf(keys) EXCEPT !.parsed = TRUE, !.key = got.key]

-----------------------------------------------------------------------------
(* Request handlers *)

\* a NotifyRequest without its topic, all members empty
NoRequest ==
    [title |-> "", body |-> "", icon |-> "", badge |-> "", tag |-> "",
     url |-> ""]

\* the payload of a call that has built none
NoPayload == [web_push |-> 0, notification |-> [title |-> ""]]

NoCall ==
    [op |-> "none", pc |-> "none", topic |-> "", endpoint |-> 0,
     p256dh |-> "", auth |-> "", delId |-> 0,
     newID |-> 0, rows |-> 0, had |-> 0, id |-> 0, created |-> FALSE,
     err |-> "", status |-> 0, cancelled |-> FALSE, cancelAt |-> "",
     token |-> <<>>, dur |-> <<>>, deleted |-> 0, listing |-> <<>>,
     authz |-> <<>>, media |-> "none", req |-> NoRequest,
     payload |-> NoPayload,
     subs |-> <<>>, i |-> 0, sem |-> 0, g |-> <<>>, results |-> <<>>,
     got |-> 0, nr |-> [sent |-> 0, failed |-> 0, staleRemoved |-> 0]]

\* the listener hands a request to a handler; slots are taken in order
CanAccept(c) ==
    /\ mainPc = "serving"
    /\ calls[c].op = "none"
    /\ \A d \in DOMAIN calls : d < c => calls[d].op # "none"

\* POST /subscriptions reaches HandlePostSubscription with a valid body
AcceptRegister(c) ==
    /\ CanAccept(c)
    /\ \E e \in Endpoints, in \in UpsertInputs :
         calls' = [calls EXCEPT ![c] =
                     [NoCall EXCEPT !.op = "upsert", !.pc = "exec",
                                    !.endpoint = e, !.topic = in[1],
                                    !.p256dh = in[2], !.auth = in[3]]]
    /\ UNCHANGED <<subs, dlog, logSeq, nextId, now, wg, mainPc, pushBudget,
                   env>>

\* an endpoint member that is absent or empty
NoEndpoint == 0

\* the (topic, p256dh, auth) triples of requests with a key missing
UpsertInputsWithGaps ==
    UpsertInputs \cup { <<"", "", "a1">>, <<"news", "p2", "">>, <<"", "", "">> }

\* the test of HandlePostSubscription on the decoded body
MissingField(endpoint, p256dh, auth) ==
    endpoint = NoEndpoint \/ p256dh = "" \/ auth = ""

\* POST /subscriptions reaches HandlePostSubscription with a body that
\* decodes: it is answered 400 when a member is missing, else handed to
\* UpsertSubscription
PostSubscription(c) ==
    /\ CanAccept(c)
    /\ \E e \in Endpoints \cup {NoEndpoint}, in \in UpsertInputsWithGaps :
         LET req == [NoCall EXCEPT !.op = "upsert", !.pc = "exec",
                                   !.endpoint = e, !.topic = in[1],
                                   !.p256dh = in[2], !.auth = in[3]] IN
         calls' = [calls EXCEPT ![c] =
                     IF MissingField(e, in[2], in[3])
                     THEN [req EXCEPT !.pc = "done",
                                      !.status = StatusBadRequest,
                                      !.err = "required"]
                     ELSE req]
    /\ UNCHANGED <<subs, dlog, logSeq, nextId, now, wg, mainPc, pushBudget,
                   env>>

\* UpsertSubscription: randomID and the INSERT ... ON CONFLICT statement
UpsertExec(c) ==
    /\ mainPc # "exited"
    /\ calls[c].op = "upsert" /\ calls[c].pc = "exec"
    /\ nextId' = nextId + 1
    /\ subs' = UpsertRows(subs, nextId + 1, calls[c].topic, calls[c].endpoint,
                          calls[c].p256dh, calls[c].auth, now)
    /\ calls' = [calls EXCEPT
           ![c].newID = nextId + 1, ![c].rows = 1, ![c].pc = "readback",
           \* history: the id the endpoint had when the statement ran
           ![c].had = SelectIdByEndpoint(subs, calls[c].endpoint)]
    /\ UNCHANGED <<dlog, logSeq, now, wg, mainPc, pushBudget, env>>

\* the status HandlePostSubscription answers with when UpsertSubscription
\* returned without error
StatusOf201(created) == IF created THEN StatusCreated ELSE StatusOK

\* a test that leaves out created
WelcomeDueAlways(created, message) == message # ""

\* if created && s.WelcomeMessage != ""
WelcomeDue(created, message) == created /\ message # ""

\* UpsertSubscription: the read-back query and the return, and the answer of
\* HandlePostSubscription, up to the test for a welcome notification
UpsertReadBack(c) ==
    /\ mainPc # "exited"
    /\ calls[c].op = "upsert" /\ calls[c].pc = "readback"
    /\ LET actualID == SelectIdByEndpoint(subs, calls[c].endpoint) IN
         calls' = [calls EXCEPT ![c] =
             IF actualID = NoRow
             THEN [@ EXCEPT !.pc = "done", !.id = 0, !.created = FALSE,
                            !.err = "lookup subscription id",
                            !.status = StatusInternalServerError]
             ELSE [@ EXCEPT !.pc = IF WelcomeDue(
                                         IsCreated(actualID, calls[c].newID,
                                                   calls[c].rows),
                                         env.welcome)
                                    THEN "welcome" ELSE "done",
                            !.id = actualID,
                            !.created = IsCreated(actualID, calls[c].newID,
                                                  calls[c].rows),
                            !.status = StatusOf201(IsCreated(actualID,
                                           calls[c].newID, calls[c].rows))]]
    /\ UNCHANGED <<subs, dlog, logSeq, nextId, now, wg, mainPc, pushBudget,
                   env>>

\* DELETE /subscriptions reaches HandleDeleteSubscriptionByEndpoint with an
\* endpoint
AcceptUnregister(c) ==
    /\ CanAccept(c)
    /\ \E e \in Endpoints :
         calls' = [calls EXCEPT ![c] =
                     [NoCall EXCEPT !.op = "delByEndpoint", !.pc = "exec",
                                    !.endpoint = e]]
    /\ UNCHANGED <<subs, dlog, logSeq, nextId, now, wg, mainPc, pushBudget,
                   env>>

DeleteSubscriptionByEndpoint(c) ==
    /\ mainPc # "exited"
    /\ calls[c].op = "delByEndpoint" /\ calls[c].pc = "exec"
    /\ subs' = DeleteRowsByEndpoint(subs, calls[c].endpoint)
    /\ calls' = [calls EXCEPT ![c].pc = "done", ![c].status = StatusNoContent]
    /\ UNCHANGED <<dlog, logSeq, nextId, now, wg, mainPc, pushBudget, env>>


\* the value of ADMIN_KEY, and the Authorization header that carries it
AdminKey == <<"k", "1">>

BearerPrefix == <<"B", "e", "a", "r", "e", "r", " ">>

\* an admin request as its handler sees it: requireAuth let it pass
AdminCall == [NoCall EXCEPT !.authz = BearerPrefix \o AdminKey]

\* the requests DELETE /subscriptions/{id} hands to
\* HandleDeleteSubscriptionByID
DeleteByIDRequests ==
    { [AdminCall EXCEPT !.op = "delByID", !.pc = "exec", !.delId = id]
        : id \in 1..nextId }

\* DELETE /subscriptions/{id} reaches HandleDeleteSubscriptionByID
AcceptDeleteByID(c) ==
    /\ CanAccept(c)
    /\ \E r \in DeleteByIDRequests : calls' = [calls EXCEPT ![c] = r]
    /\ UNCHANGED <<subs, dlog, logSeq, nextId, now, wg, mainPc, pushBudget,
                   env>>

\* a delete that takes the deliveries logged for the subscription with it
DeleteSubscriptionByIDCascading(c) ==
    /\ mainPc # "exited"
    /\ calls[c].op = "delByID" /\ calls[c].pc = "exec"
    /\ subs' = DeleteRowsByID(subs, calls[c].delId)
    /\ dlog' = SelectSeq(dlog, LAMBDA row : row.subscription_id # calls[c].delId)
    /\ calls' = [calls EXCEPT ![c].pc = "done", ![c].status = StatusNoContent]
    /\ UNCHANGED <<logSeq, nextId, now, wg, mainPc, pushBudget, env>>

DeleteSubscriptionByID(c) ==
    /\ mainPc # "exited"
    /\ calls[c].op = "delByID" /\ calls[c].pc = "exec"
    /\ subs' = DeleteRowsByID(subs, calls[c].delId)
    /\ calls' = [calls EXCEPT ![c].pc = "done", ![c].status = StatusNoContent]
    /\ UNCHANGED <<dlog, logSeq, nextId, now, wg, mainPc, pushBudget, env>>

\* the older_than values of the purge requests: none, tokens of the
\* documented form (small, with leading zeros, at the largest magnitude whose
\* duration fits 64 bits and just above it, beyond the range of Atoi) and
\* malformed ones
PurgeTokens ==
    { <<>>,
      <<"0", "m">>, <<"1", "m">>, <<"2", "m">>, <<"0", "1", "h">>,
      <<"1", "d">>, <<"3", "0", "d">>,
      <<"1", "0", "6", "7", "5", "1", "d">>,
      <<"1", "0", "6", "7", "5", "2", "d">>,
      <<"9", "9", "9", "9", "9", "9", "9", "9", "9", "9",
        "9", "9", "9", "9", "9", "9", "9", "9", "9", "9", "m">>,
      <<"d">>, <<"3", "0">>, <<"3", "0", "s">>, <<"3", "0", "D">>,
      <<"-", "1", "d">>, <<"1", ".", "5", "h">>, <<"1", "d", " ">>,
      <<" ", "1", "d">>, <<"1", "d", "2", "h">>, <<"1", "d", "d">> }

\* the token HandlePurgeDeliveryLog parses: "30d" when older_than is empty
OlderThanOf(token) == IF token = <<>> THEN <<"3", "0", "d">> ELSE token

\* the nanoseconds within the second that time.Now() may return
SubSecondNanos == {0, 999999999}

\* the requests DELETE /delivery-log hands to HandlePurgeDeliveryLog,
\* older_than one of tokens
PurgeRequests(tokens) ==
    { [AdminCall EXCEPT !.op = "purge", !.pc = "parse", !.token = t]
        : t \in tokens }

\* DELETE /delivery-log reaches HandlePurgeDeliveryLog
AcceptPurgeOf(c, tokens) ==
    /\ CanAccept(c)
    /\ \E r \in PurgeRequests(tokens) : calls' = [calls EXCEPT ![c] = r]
    /\ UNCHANGED <<subs, dlog, logSeq, nextId, now, wg, mainPc, pushBudget,
                   env>>

AcceptPurge(c) == AcceptPurgeOf(c, PurgeTokens)

\* the same with few tokens: none, one day, and no age at all
FewPurgeTokens == { <<>>, <<"1", "d">>, <<"0", "m">> }

AcceptPurgeFew(c) == AcceptPurgeOf(c, FewPurgeTokens)

\* HandlePurgeDeliveryLog: the default, parseDuration, and 400 on its error
PurgeParse(c) ==
    /\ mainPc # "exited"
    /\ calls[c].op = "purge" /\ calls[c].pc = "parse"
    /\ LET parsed == parseDuration(OlderThanOf(calls[c].token)) IN
         calls' = [calls EXCEPT ![c] =
             IF parsed.ok
             THEN [@ EXCEPT !.pc = "exec", !.dur = parsed.dur]
             ELSE [@ EXCEPT !.pc = "done", !.status = StatusBadRequest,
                            !.err = "invalid duration"]]
    /\ UNCHANGED <<subs, dlog, logSeq, nextId, now, wg, mainPc, pushBudget,
                   env>>

\* PurgeDeliveryLog and the answer 200 {"deleted": n}
PurgeExec(c) ==
    /\ mainPc # "exited"
    /\ calls[c].op = "purge" /\ calls[c].pc = "exec"
    /\ \E nanos \in SubSecondNanos :
         LET kept == RowsKept(dlog, CutoffSecond(now, nanos, calls[c].dur)) IN
           /\ dlog' = kept
           /\ calls' = [calls EXCEPT ![c].pc = "done",
                                     ![c].status = StatusOK,
                                     ![c].deleted = Len(dlog) - Len(kept)]
    /\ UNCHANGED <<subs, logSeq, nextId, now, wg, mainPc, pushBudget, env>>

-----------------------------------------------------------------------------
(* The fan-out: SendNotifications and sendToSubscriptions *)

RECURSIVE RowsInOrder(_)
\* the rows of a result set as a sequence, in insertion order (ids are drawn
\* in increasing order in this model)
RowsInOrder(rows) ==
    IF rows = {} THEN <<>>
    ELSE LET first == CHOOSE r \in rows : \A q \in rows : r.id <= q.id
         IN <<first>> \o RowsInOrder(rows \ {first})

\* a query that also returns the rows without a topic
GetSubscriptionsByTopicOrNone(rows, topic) ==
    IF topic = ""
    THEN RowsInOrder(rows)
    ELSE RowsInOrder({ r \in rows : r.topic = topic \/ r.topic = "" })

\* GetSubscriptionsByTopic: every row when topic is empty, else exact match
GetSubscriptionsByTopic(rows, topic) ==
    IF topic = ""
    THEN RowsInOrder(rows)
    ELSE RowsInOrder({ r \in rows : r.topic = topic })

\* a delivery goroutine; attempts (calls of the primitive), payload (the
\* payload handed to the primitive), hung (its call of the primitive never
\* returns), resp (what the
\* primitive returned), logIds (ids of the log rows it wrote), logErr and
\* delErr (its log write, its eviction write returned an error) and removed
\* (its eviction write deleted a row) are history
NoDelivery ==
    [pc |-> "idle", attempts |-> 0, payload |-> NoPayload, hung |-> FALSE,
     statusCode |-> 0, errMsg |-> "",
     failed |-> FALSE, resp |-> [err |-> "", code |-> -1], logIds |-> {},
     logErr |-> FALSE, delErr |-> FALSE, removed |-> FALSE]

\* a semaphore of one slot
CanAcquireSingle(sem) == sem < 1

\* a semaphore that admits one sender more than its capacity
CanAcquireLoose(sem) == sem <= pushConcurrency

\* sem <- struct{}{} proceeds while the channel holds fewer than its capacity
CanAcquire(sem) == sem < pushConcurrency

\* statusCode and errMsg of a delivery, from what the primitive returned
StatusOf(r) == IF r.err # "" THEN 0 ELSE r.code
ErrMsgOf(r) == IF r.err # "" THEN r.err ELSE ""

\* a goroutine that calls the primitive a second time after a transport error
AfterPushRetry(d, r) ==
    IF r.err # "" /\ d.attempts < 2
    THEN [d EXCEPT !.attempts = @ + 1]
    ELSE [d EXCEPT !.pc = "log", !.statusCode = StatusOf(r),
                   !.errMsg = ErrMsgOf(r), !.failed = r.err # "", !.resp = r]

\* the goroutine after webpush.SendNotification returned r: statusCode and
\* errMsg are set and the primitive is not called again
AfterPush(d, r) ==
    [d EXCEPT !.pc = "log", !.statusCode = StatusOf(r),
              !.errMsg = ErrMsgOf(r), !.failed = r.err # "", !.resp = r]

\* a test that takes every error status for stale
IsStaleOnError(statusCode) == statusCode >= StatusBadRequest

\* a test that takes 410 alone for stale
IsStaleGoneOnly(statusCode) == statusCode = StatusGone

\* stale := statusCode == 404 || statusCode == 410
IsStale(statusCode) == statusCode = StatusNotFound \/ statusCode = StatusGone

\* a test that takes 300 for sent
IsSentUpTo300(failed, statusCode) ==
    ~failed /\ statusCode >= 200 /\ statusCode <= 300

\* sent := err == nil && statusCode >= 200 && statusCode < 300
IsSent(failed, statusCode) ==
    ~failed /\ statusCode >= 200 /\ statusCode < 300

\* a collecting loop that counts a stale delivery as stale only
TallyStaleOnly(nr, r) ==
    IF r.sent THEN [nr EXCEPT !.sent = @ + 1]
    ELSE IF ~r.staleRemoved THEN [nr EXCEPT !.failed = @ + 1]
    ELSE [nr EXCEPT !.staleRemoved = @ + 1]

\* one pass of the collecting loop over a received result
Tally(nr, r) ==
    LET a == IF r.sent THEN [nr EXCEPT !.sent = @ + 1]
             ELSE IF ~r.staleRemoved THEN [nr EXCEPT !.failed = @ + 1]
             ELSE nr
    IN IF r.staleRemoved
       THEN [a EXCEPT !.staleRemoved = @ + 1, !.failed = @ + 1]
       ELSE a

\* a log row written without the error text
LogRowNoError(seq, subscriptionID, statusCode, errMsg, ts) ==
    [id |-> seq + 1, subscription_id |-> subscriptionID, sent_at |-> ts,
     status_code |-> statusCode, error |-> ""]

\* INSERT INTO delivery_log (subscription_id, status_code, error)
LogRow(seq, subscriptionID, statusCode, errMsg, ts) ==
    [id |-> seq + 1, subscription_id |-> subscriptionID, sent_at |-> ts,
     status_code |-> statusCode, error |-> errMsg]

\* a goroutine that returns when its log write failed, reporting nothing
AfterLogDeliveryAbort(d, logErr) ==
    [d EXCEPT !.pc = IF logErr THEN "release"
                     ELSE IF IsStale(d.statusCode) THEN "evict" ELSE "report",
              !.logErr = logErr]

\* the goroutine after LogDelivery returned: an error is printed and the
\* goroutine goes on to the stale test
AfterLogDelivery(d, logErr) ==
    [d EXCEPT !.pc = IF IsStale(d.statusCode) THEN "evict" ELSE "report",
              !.logErr = logErr]

\* POST /notify reaches HandleNotify with a title
\* a payload that carries the url beside the title
pushPayloadFlatURL(req) ==
    LET names == {"title"}
                   \cup { f \in {"body", "icon", "badge", "tag", "url"} :
                            req[f] # "" }
    IN [web_push |-> 8030, notification |-> [name \in names |-> req[name]]]

\* pushPayload: the object json.Marshal writes, a function from the names
\* of its members to their values
pushPayload(req) ==
    LET names == {"title"}
                   \cup { f \in {"body", "icon", "badge", "tag"} : req[f] # "" }
                   \cup (IF req.url # "" THEN {"data"} ELSE {})
    IN [web_push |-> 8030,
        notification |->
            [name \in names |->
                IF name = "data" THEN [url |-> req.url] ELSE req[name]]]

\* the values the optional members of a NotifyRequest take when present
PresentValue ==
    [body |-> "B", icon |-> "I", badge |-> "G", tag |-> "T", url |-> "U"]

\* a NotifyRequest with a title and the optional members in present
RequestWith(present) ==
    [f \in DOMAIN NoRequest |->
        IF f = "title" THEN "hello"
        ELSE IF f \in present THEN PresentValue[f] ELSE ""]

\* the optional members present in the requests of the payload
\* specification
PresentChoices ==
    { {}, {"url"}, {"body", "badge"}, {"icon", "tag"},
      {"body", "icon", "badge", "tag", "url"} }

NotifyRequests ==
    { [AdminCall EXCEPT !.op = "notify", !.pc = "add", !.topic = t,
                        !.media = "json", !.req = RequestWith({})]
        : t \in Topics }

\* broadcasts with optional members present or not
NotifyRequestsWithMembers ==
    { [AdminCall EXCEPT !.op = "notify", !.pc = "add", !.topic = "",
                        !.media = "json", !.req = RequestWith(present)]
        : present \in PresentChoices }

\* POST /notify reaches HandleNotify with a title and optional members
AcceptNotifyWithMembers(c) ==
    /\ CanAccept(c)
    /\ \E r \in NotifyRequestsWithMembers : calls' = [calls EXCEPT ![c] = r]
    /\ UNCHANGED <<subs, dlog, logSeq, nextId, now, wg, mainPc, pushBudget,
                   env>>

AcceptNotify(c) ==
    /\ CanAccept(c)
    /\ \E r \in NotifyRequests : calls' = [calls EXCEPT ![c] = r]
    /\ UNCHANGED <<subs, dlog, logSeq, nextId, now, wg, mainPc, pushBudget,
                   env>>

\* the client of a notify request goes away while HandleNotify runs: net/http
\* cancels the context of the request; cancelAt (where the call was) is
\* history
CancelRequest(c) ==
    /\ mainPc # "exited"
    /\ calls[c].op = "notify" /\ calls[c].pc # "done"
    /\ ~calls[c].cancelled
    /\ calls' = [calls EXCEPT ![c].cancelled = TRUE,
                              ![c].cancelAt = calls[c].pc]
    /\ UNCHANGED <<subs, dlog, logSeq, nextId, now, wg, mainPc, pushBudget,
                   env>>

\* SendNotifications: wg.Add(1)
NotifyAdd(c) ==
    /\ mainPc # "exited"
    /\ calls[c].op = "notify" /\ calls[c].pc = "add"
    /\ wg' = wg + 1
    /\ calls' = [calls EXCEPT ![c].pc = "resolve"]
    /\ UNCHANGED <<subs, dlog, logSeq, nextId, now, mainPc, pushBudget, env>>

\* SendNotifications: GetSubscriptionsByTopic, then sendToSubscriptions up to
\* the creation of its two channels: pushPayload builds the one payload of
\* the call
NotifyResolve(c) ==
    /\ mainPc # "exited"
    /\ calls[c].op = "notify" /\ calls[c].pc = "resolve"
    /\ LET found == GetSubscriptionsByTopic(subs, calls[c].topic) IN
         calls' = [calls EXCEPT ![c].subs = found,
                                ![c].payload = pushPayload(calls[c].req),
                                ![c].g = [k \in 1..Len(found) |-> NoDelivery],
                                ![c].pc = "dispatch"]
    /\ UNCHANGED <<subs, dlog, logSeq, nextId, now, wg, mainPc, pushBudget,
                   env>>

\* for _, sub := range subs: the loop goes on while subscriptions are left;
\* neither it nor the calls it makes take the context of the request
MoreToDispatch(call) == call.i < Len(call.subs)

\* a dispatch loop whose semaphore also counts the slots another call holds
SpawnSharedSem(c) ==
    /\ mainPc # "exited"
    /\ calls[c].pc = "dispatch"
    /\ MoreToDispatch(calls[c])
    /\ \A d \in DOMAIN calls :
          CanAcquire(calls[c].sem + (IF d = c THEN 0 ELSE calls[d].sem))
    /\ calls' = [calls EXCEPT ![c].sem = @ + 1,
                              ![c].i = @ + 1,
                              ![c].g[calls[c].i + 1] =
                                  [@ EXCEPT !.pc = "sending",
                                            !.attempts = @ + 1,
                                            !.payload = calls[c].payload]]
    /\ UNCHANGED <<subs, dlog, logSeq, nextId, now, wg, mainPc, pushBudget,
                   env>>

\* the snapshot of call c followed by the subscribers of its topic stored
\* since
WithLaterRows(c) ==
    calls[c].subs \o
      SelectSeq(GetSubscriptionsByTopic(subs, calls[c].topic),
                LAMBDA r : \A k \in DOMAIN calls[c].subs :
                               calls[c].subs[k].id # r.id)

\* a dispatch loop that resolves the subscribers again at every pass
SpawnResolvingAgain(c) ==
    /\ mainPc # "exited"
    /\ calls[c].pc = "dispatch"
    /\ calls[c].i < Len(WithLaterRows(c))
    /\ CanAcquire(calls[c].sem)
    /\ calls' = [calls EXCEPT
          ![c].subs = WithLaterRows(c),
          ![c].sem = @ + 1,
          ![c].i = @ + 1,
          ![c].g = [k \in 1..Len(WithLaterRows(c)) |->
                      IF k = calls[c].i + 1
                      THEN [NoDelivery EXCEPT !.pc = "sending",
                                              !.attempts = 1,
                                              !.payload = calls[c].payload]
                      ELSE IF k \in DOMAIN calls[c].g THEN calls[c].g[k]
                      ELSE NoDelivery]]
    /\ UNCHANGED <<subs, dlog, logSeq, nextId, now, wg, mainPc, pushBudget,
                   env>>

\* one pass of the dispatch loop: acquire a slot, start the goroutine, which
\* calls webpush.SendNotification
Spawn(c) ==
    /\ mainPc # "exited"
    /\ calls[c].pc = "dispatch"
    /\ MoreToDispatch(calls[c])
    /\ CanAcquire(calls[c].sem)
    /\ calls' = [calls EXCEPT ![c].sem = @ + 1,
                              ![c].i = @ + 1,
                              ![c].g[calls[c].i + 1] =
                                  [@ EXCEPT !.pc = "sending",
                                            !.attempts = @ + 1,
                                            !.payload = calls[c].payload]]
    /\ UNCHANGED <<subs, dlog, logSeq, nextId, now, wg, mainPc, pushBudget,
                   env>>

\* webpush.SendNotification returns (resp, err), one of returns
PushReturnOf(c, k, returns) ==
    /\ mainPc # "exited"
    /\ k \in DOMAIN calls[c].g
    /\ calls[c].g[k].pc = "sending"
    /\ ~calls[c].g[k].hung
    /\ pushBudget > 0
    /\ pushBudget' = pushBudget - 1
    /\ \E r \in returns :
         calls' = [calls EXCEPT ![c].g[k] = AfterPush(calls[c].g[k], r)]
    /\ UNCHANGED <<subs, dlog, logSeq, nextId, now, wg, mainPc, env>>

PushReturn(c, k) == PushReturnOf(c, k, PushReturns)

\* the same, the push service answering 201 or 410
FewPushReturns == { r \in PushReturns : r.code \in {201, StatusGone} }

PushReturnFew(c, k) == PushReturnOf(c, k, FewPushReturns)

\* the call of webpush.SendNotification of delivery k is one that never
\* returns (no timeout is set on it); at most one of a batch is
Hang(c, k) ==
    /\ mainPc # "exited"
    /\ k \in DOMAIN calls[c].g
    /\ calls[c].g[k].pc = "sending"
    /\ \A j \in DOMAIN calls[c].g : ~calls[c].g[j].hung
    /\ calls' = [calls EXCEPT ![c].g[k].hung = TRUE]
    /\ UNCHANGED <<subs, dlog, logSeq, nextId, now, wg, mainPc, pushBudget,
                   env>>

\* the same with a status at and around every boundary of the classification
PushReturnAnyStatus(c, k) == PushReturnOf(c, k, PushReturnsAnyStatus)

\* the largest id in the table
LastRowid == IF dlog = <<>> THEN 0 ELSE dlog[Len(dlog)].id

\* LogDelivery on a table whose id is a plain INTEGER PRIMARY KEY: the new
\* id is one more than the largest id in the table
LogDeliveryReusingIds(c, k) ==
    /\ mainPc # "exited"
    /\ k \in DOMAIN calls[c].g
    /\ calls[c].g[k].pc = "log"
    /\ dlog' = Append(dlog, LogRow(LastRowid, calls[c].subs[k].id,
                                   calls[c].g[k].statusCode,
                                   calls[c].g[k].errMsg, now))
    /\ logSeq' = LastRowid + 1
    /\ calls' = [calls EXCEPT ![c].g[k] =
                     [AfterLogDelivery(@, FALSE)
                        EXCEPT !.logIds = @ \cup {LastRowid + 1}]]
    /\ UNCHANGED <<subs, nextId, now, wg, mainPc, pushBudget, env>>

\* LogDelivery(db, s.ID, statusCode, errMsg)
LogDelivery(c, k) ==
    /\ mainPc # "exited"
    /\ k \in DOMAIN calls[c].g
    /\ calls[c].g[k].pc = "log"
    /\ dlog' = Append(dlog, LogRow(logSeq, calls[c].subs[k].id,
                                   calls[c].g[k].statusCode,
                                   calls[c].g[k].errMsg, now))
    /\ logSeq' = logSeq + 1
    /\ calls' = [calls EXCEPT ![c].g[k] =
                     [AfterLogDelivery(@, FALSE)
                        EXCEPT !.logIds = @ \cup {logSeq + 1}]]
    /\ UNCHANGED <<subs, nextId, now, wg, mainPc, pushBudget, env>>

\* LogDelivery returns an error: no row is written
LogDeliveryFails(c, k) ==
    /\ mainPc # "exited"
    /\ k \in DOMAIN calls[c].g
    /\ calls[c].g[k].pc = "log"
    /\ calls' = [calls EXCEPT ![c].g[k] = AfterLogDelivery(@, TRUE)]
    /\ UNCHANGED <<subs, dlog, logSeq, nextId, now, wg, mainPc, pushBudget,
                   env>>

\* an eviction that deletes by the endpoint of the stale subscription
EvictStaleByEndpoint(c, k) ==
    /\ mainPc # "exited"
    /\ k \in DOMAIN calls[c].g
    /\ calls[c].g[k].pc = "evict"
    /\ subs' = DeleteRowsByEndpoint(subs, calls[c].subs[k].endpoint)
    /\ calls' = [calls EXCEPT ![c].g[k].pc = "report",
                              ![c].g[k].removed =
                                  DeleteRowsByEndpoint(subs,
                                      calls[c].subs[k].endpoint) # subs]
    /\ UNCHANGED <<dlog, logSeq, nextId, now, wg, mainPc, pushBudget, env>>

\* DeleteSubscriptionByID(db, s.ID) of a stale subscription
EvictStale(c, k) ==
    /\ mainPc # "exited"
    /\ k \in DOMAIN calls[c].g
    /\ calls[c].g[k].pc = "evict"
    /\ subs' = DeleteRowsByID(subs, calls[c].subs[k].id)
    /\ calls' = [calls EXCEPT ![c].g[k].pc = "report",
                              ![c].g[k].removed =
                                  DeleteRowsByID(subs, calls[c].subs[k].id)
                                    # subs]
    /\ UNCHANGED <<dlog, logSeq, nextId, now, wg, mainPc, pushBudget, env>>

\* DeleteSubscriptionByID returns an error: no row is deleted, the error is
\* printed
EvictStaleFails(c, k) ==
    /\ mainPc # "exited"
    /\ k \in DOMAIN calls[c].g
    /\ calls[c].g[k].pc = "evict"
    /\ calls' = [calls EXCEPT ![c].g[k].pc = "report",
                              ![c].g[k].delErr = TRUE]
    /\ UNCHANGED <<subs, dlog, logSeq, nextId, now, wg, mainPc, pushBudget,
                   env>>

\* results <- result{sent, staleRemoved}; the channel has room for all
Report(c, k) ==
    /\ mainPc # "exited"
    /\ k \in DOMAIN calls[c].g
    /\ calls[c].g[k].pc = "report"
    /\ calls' = [calls EXCEPT
           ![c].results = Append(@,
               [sent |-> IsSent(calls[c].g[k].failed, calls[c].g[k].statusCode),
                staleRemoved |-> IsStale(calls[c].g[k].statusCode)]),
           ![c].g[k].pc = "release"]
    /\ UNCHANGED <<subs, dlog, logSeq, nextId, now, wg, mainPc, pushBudget,
                   env>>

\* the deferred <-sem
Release(c, k) ==
    /\ mainPc # "exited"
    /\ k \in DOMAIN calls[c].g
    /\ calls[c].g[k].pc = "release"
    /\ calls' = [calls EXCEPT ![c].sem = @ - 1, ![c].g[k].pc = "exit"]
    /\ UNCHANGED <<subs, dlog, logSeq, nextId, now, wg, mainPc, pushBudget,
                   env>>

\* a collecting loop that stops one result short
AllCollectedButOne(call) == call.got >= Len(call.subs) - 1

\* the collecting loop has received one result per resolved subscription
AllCollected(call) == call.got = Len(call.subs)

\* one pass of the collecting loop, entered when the dispatch loop is over
Collect(c) ==
    /\ mainPc # "exited"
    /\ calls[c].pc = "dispatch"
    /\ calls[c].i = Len(calls[c].subs)
    /\ ~AllCollected(calls[c])
    /\ calls[c].results # <<>>
    /\ calls' = [calls EXCEPT ![c].nr = Tally(@, Head(calls[c].results)),
                              ![c].results = Tail(@),
                              ![c].got = @ + 1]
    /\ UNCHANGED <<subs, dlog, logSeq, nextId, now, wg, mainPc, pushBudget,
                   env>>

\* sendToSubscriptions returns nr; SendNotifications runs the deferred
\* wg.Done and HandleNotify answers
NotifyReturn(c) ==
    /\ mainPc # "exited"
    /\ calls[c].op = "notify" /\ calls[c].pc = "dispatch"
    /\ calls[c].i = Len(calls[c].subs)
    /\ AllCollected(calls[c])
    /\ wg' = wg - 1
    /\ calls' = [calls EXCEPT ![c].pc = "done", ![c].status = StatusOK]
    /\ UNCHANGED <<subs, dlog, logSeq, nextId, now, mainPc, pushBudget, env>>

\* GetSubscriptionsByTopic returns an error: SendNotifications prints it and
\* returns NotifyResult{}, the deferred wg.Done runs and HandleNotify answers
\* 200 with that result; err is history (the error is not in the answer)
NotifyResolveFails(c) ==
    /\ mainPc # "exited"
    /\ calls[c].op = "notify" /\ calls[c].pc = "resolve"
    /\ wg' = wg - 1
    /\ calls' = [calls EXCEPT ![c].pc = "done", ![c].status = StatusOK,
                              ![c].err = "query subscriptions"]
    /\ UNCHANGED <<subs, dlog, logSeq, nextId, now, mainPc, pushBudget, env>>

-----------------------------------------------------------------------------
(* The welcome notification of HandlePostSubscription *)

\* the goroutine of the welcome notification of registration c is running
WelcomePending(c) ==
    calls[c].op = "upsert" /\ calls[c].pc \in {"sleep", "dispatch"}

\* Subscription{ID, Endpoint, KeyP256dh, KeyAuth} of the registration
WelcomeSub(call) ==
    [id |-> call.id, topic |-> "", endpoint |-> call.endpoint,
     key_p256dh |-> call.p256dh, key_auth |-> call.auth, created_at |-> 0]

\* s.WG.Add(1) and the go statement; the handler returns
WelcomeAdd(c) ==
    /\ mainPc # "exited"
    /\ calls[c].op = "upsert" /\ calls[c].pc = "welcome"
    /\ wg' = wg + 1
    /\ calls' = [calls EXCEPT ![c].pc = "sleep"]
    /\ UNCHANGED <<subs, dlog, logSeq, nextId, now, mainPc, pushBudget, env>>

\* the goroutine: time.Sleep(1 * time.Second) is over and it calls
\* sendToSubscriptions with the one subscription and
\* NotifyRequest{Title: s.WelcomeMessage}
WelcomeSleep(c) ==
    /\ mainPc # "exited"
    /\ calls[c].op = "upsert" /\ calls[c].pc = "sleep"
    /\ calls' = [calls EXCEPT
           ![c].subs = <<WelcomeSub(calls[c])>>,
           ![c].payload = pushPayload([NoRequest EXCEPT !.title = env.welcome]),
           ![c].g = <<NoDelivery>>,
           ![c].pc = "dispatch"]
    /\ UNCHANGED <<subs, dlog, logSeq, nextId, now, wg, mainPc, pushBudget,
                   env>>

\* sendToSubscriptions returns and the deferred s.WG.Done() runs
WelcomeReturn(c) ==
    /\ mainPc # "exited"
    /\ calls[c].op = "upsert" /\ calls[c].pc = "dispatch"
    /\ calls[c].i = Len(calls[c].subs)
    /\ AllCollected(calls[c])
    /\ wg' = wg - 1
    /\ calls' = [calls EXCEPT ![c].pc = "done"]
    /\ UNCHANGED <<subs, dlog, logSeq, nextId, now, mainPc, pushBudget, env>>

-----------------------------------------------------------------------------
(* The clock and main *)

Tick ==
    /\ mainPc # "exited"
    /\ now < MaxTime
    /\ now' = now + 1
    /\ UNCHANGED <<subs, dlog, logSeq, nextId, wg, calls, mainPc, pushBudget,
                   env>>

\* a handler runs from the accept of its request until it returns; the
\* goroutine of a welcome notification outlives its handler
HandlerActive(c) ==
    calls[c].op # "none" /\ calls[c].pc # "done" /\ ~WelcomePending(c)

\* SIGINT or SIGTERM arrives; main calls httpServer.Shutdown, which closes
\* the listener
Signal ==
    /\ mainPc = "serving"
    /\ mainPc' = "shutdown"
    /\ UNCHANGED <<subs, dlog, logSeq, nextId, now, wg, calls, pushBudget,
                   env>>

\* Shutdown returns nil: every connection has become idle
ShutdownDrained ==
    /\ mainPc = "shutdown"
    /\ \A c \in DOMAIN calls : ~HandlerActive(c)
    /\ mainPc' = "wait"
    /\ UNCHANGED <<subs, dlog, logSeq, nextId, now, wg, calls, pushBudget,
                   env>>

\* Shutdown returns the context's error after 10 seconds, handlers still
\* running; main logs it and goes on
ShutdownTimeout ==
    /\ mainPc = "shutdown"
    /\ \E c \in DOMAIN calls : HandlerActive(c)
    /\ mainPc' = "wait"
    /\ UNCHANGED <<subs, dlog, logSeq, nextId, now, wg, calls, pushBudget,
                   env>>

\* srv.WG.Wait() returns
WaitReturn ==
    /\ mainPc = "wait"
    /\ wg = 0
    /\ mainPc' = "waited"
    /\ UNCHANGED <<subs, dlog, logSeq, nextId, now, wg, calls, pushBudget,
                   env>>

\* main returns: the deferred db.Close, then the process ends
MainExit ==
    /\ mainPc = "waited"
    /\ mainPc' = "exited"
    /\ UNCHANGED <<subs, dlog, logSeq, nextId, now, wg, calls, pushBudget,
                   env>>

-----------------------------------------------------------------------------
(* main: from the environment to the listener *)

\* the keys of the configurations below
GoodKeys == GenerateVAPIDKeys(7)

GoodPoint == ScalarBaseMult(7)

\* configurations: keys as generate-vapid printed them, the public key with
\* the private key of another pair, with a line feed at its end, padded
\* with =, with a character of the standard alphabet, cut to five and to
\* six characters, in compressed form, with a point off the curve, with a
\* coordinate not reduced modulo the prime, missing; the private key with a
\* character outside the alphabet, missing
ConfiguredKeys ==
    { GoodKeys,
      [GoodKeys EXCEPT !.privateKey = GenerateVAPIDKeys(2).privateKey],
      [GoodKeys EXCEPT !.publicKey = Append(@, "\n")],
      [GoodKeys EXCEPT !.publicKey = Append(@, "=")],
      [GoodKeys EXCEPT !.publicKey = [@ EXCEPT ![2] = "+"]],
      [GoodKeys EXCEPT !.publicKey = SubSeq(@, 1, 5)],
      [GoodKeys EXCEPT !.publicKey = SubSeq(@, 1, 6)],
      [GoodKeys EXCEPT !.publicKey =
          EncodeToString(<<2>> \o FillBytes(GoodPoint.x, FieldBytes)
                              \o FillBytes(GoodPoint.y, FieldBytes))],
      [GoodKeys EXCEPT !.publicKey =
          EncodeToString(Marshal(GoodPoint.x, GoodPoint.y + 1))],
      [GoodKeys EXCEPT !.publicKey =
          EncodeToString(Marshal(GoodPoint.x + FieldPrime, GoodPoint.y))],
      [GoodKeys EXCEPT !.publicKey = <<>>],
      [GoodKeys EXCEPT !.privateKey = [@ EXCEPT ![2] = "*"]],
      [GoodKeys EXCEPT !.privateKey = <<>>] }

\* main: the required variables are set, or log.Fatal
CheckEnv ==
    /\ mainPc = "start"
    /\ mainPc' = IF env.publicKey = <<>> \/ env.privateKey = <<>>
                 THEN "fatal" ELSE "checked"
    /\ UNCHANGED <<subs, dlog, logSeq, nextId, now, wg, calls, pushBudget,
                   env>>

\* main: ParseVAPIDKeys, log.Fatalf when it returns an error
ParseKeys ==
    /\ mainPc = "checked"
    /\ LET got == ParseVAPIDKeys(env.publicKey, env.privateKey) IN
         /\ env' = [env EXCEPT !.parsed = TRUE, !.key = got.key,
                               !.err = got.err]
         /\ mainPc' = IF got.err # "" THEN "fatal" ELSE "parsed"
    /\ UNCHANGED <<subs, dlog, logSeq, nextId, now, wg, calls, pushBudget>>

\* main: OpenDB; migrate creates the tables that are not there
OpenDB ==
    /\ mainPc = "parsed"
    /\ mainPc' = "opened"
    /\ UNCHANGED <<subs, dlog, logSeq, nextId, now, wg, calls, pushBudget,
                   env>>

\* main: the goroutine of httpServer.ListenAndServe
ListenAndServe ==
    /\ mainPc = "opened"
    /\ mainPc' = "serving"
    /\ UNCHANGED <<subs, dlog, logSeq, nextId, now, wg, calls, pushBudget,
                   env>>

\* TestGenerateAndParseVAPIDKeys: GenerateVAPIDKeys
TestGenerate ==
    /\ mainPc = "keytest"
    /\ env.publicKey = <<>>
    /\ \E d \in 1..(GroupOrder - 1) : env' = EnvOf(GenerateVAPIDKeys(d))
    /\ UNCHANGED <<subs, dlog, logSeq, nextId, now, wg, calls, mainPc,
                   pushBudget>>

\* TestGenerateAndParseVAPIDKeys: ParseVAPIDKeys on what was generated
TestParse ==
    /\ mainPc = "keytest"
    /\ env.publicKey # <<>> /\ ~env.parsed
    /\ LET got == ParseVAPIDKeys(env.publicKey, env.privateKey) IN
         env' = [env EXCEPT !.parsed = TRUE, !.key = got.key, !.err = got.err]
    /\ UNCHANGED <<subs, dlog, logSeq, nextId, now, wg, calls, mainPc,
                   pushBudget>>

-----------------------------------------------------------------------------
(* The admin listing *)

\* a listing that selects the key columns too
ListSubscriptionsAdminWithKeys(rows, topic) ==
    GetSubscriptionsByTopic(rows, topic)

\* ListSubscriptionsAdmin: SELECT id, topic, endpoint, created_at, every row
\* when topic is empty, else exact match; Scan fills those four fields of a
\* Subscription and leaves KeyP256dh and KeyAuth at their zero value
ListSubscriptionsAdmin(rows, topic) ==
    LET found == IF topic = ""
                 THEN RowsInOrder(rows)
                 ELSE RowsInOrder({ r \in rows : r.topic = topic })
    IN [n \in DOMAIN found |->
            [id |-> found[n].id, topic |-> found[n].topic,
             endpoint |-> found[n].endpoint,
             key_p256dh |-> "", key_auth |-> "",
             created_at |-> found[n].created_at]]

\* encoding/json of a Subscription: a function from the names of the
\* members written to their values; the key members carry omitempty
MarshalSubscription(s) ==
    LET names == {"id", "topic", "endpoint", "created_at"}
                   \cup (IF s.key_p256dh = "" THEN {} ELSE {"key_p256dh"})
                   \cup (IF s.key_auth = "" THEN {} ELSE {"key_auth"})
    IN [name \in names |-> s[name]]

\* the "subscriptions" member of the body HandleListSubscriptions writes
ListingOf(rows, topic) ==
    LET found == ListSubscriptionsAdmin(rows, topic)
    IN [n \in DOMAIN found |-> MarshalSubscription(found[n])]

\* the requests GET /subscriptions?topic= hands to HandleListSubscriptions
ListRequests ==
    { [AdminCall EXCEPT !.op = "list", !.pc = "exec", !.topic = t]
        : t \in Topics }

AcceptList(c) ==
    /\ CanAccept(c)
    /\ \E r \in ListRequests : calls' = [calls EXCEPT ![c] = r]
    /\ UNCHANGED <<subs, dlog, logSeq, nextId, now, wg, mainPc, pushBudget,
                   env>>

HandleListSubscriptions(c) ==
    /\ mainPc # "exited"
    /\ calls[c].op = "list" /\ calls[c].pc = "exec"
    /\ calls' = [calls EXCEPT ![c].pc = "done",
                              ![c].status = StatusOK,
                              ![c].listing = ListingOf(subs, calls[c].topic)]
    /\ UNCHANGED <<subs, dlog, logSeq, nextId, now, wg, mainPc, pushBudget,
                   env>>

-----------------------------------------------------------------------------
(* The admin routes: contentTypeMiddleware, then requireAuth *)

\* strings.HasPrefix
HasPrefix(str, prefix) ==
    /\ Len(str) >= Len(prefix)
    /\ SubSeq(str, 1, Len(prefix)) = prefix

\* strings.TrimPrefix: str itself when it does not start with prefix
TrimPrefix(str, prefix) ==
    IF HasPrefix(str, prefix)
    THEN SubSeq(str, Len(prefix) + 1, Len(str))
    ELSE str

\* the test of requireAuth on the Authorization header
PassesAuth(header) ==
    ~(~HasPrefix(header, BearerPrefix)
        \/ TrimPrefix(header, BearerPrefix) # AdminKey)

\* the Authorization headers of the requests: none, the admin key as bearer
\* token, another key, the admin key without scheme, and with the scheme
\* in lower case
AuthHeaders ==
    { <<>>,
      BearerPrefix \o AdminKey,
      BearerPrefix \o <<"k", "2">>,
      AdminKey,
      <<"b", "e", "a", "r", "e", "r", " ">> \o AdminKey }

\* the method of the route of an admin operation
MethodOf(op) ==
    CASE op = "list" -> "GET"
      [] op = "notify" -> "POST"
      [] op = "delByID" -> "DELETE"
      [] op = "purge" -> "DELETE"

\* what a request to an admin operation may carry as body: none, one
\* declared as application/json, one declared as text/plain
MediaOf(op) ==
    CASE op = "list" -> {"none"}
      [] op = "notify" -> {"none", "json", "text"}
      [] op = "delByID" -> {"none", "text"}
      [] op = "purge" -> {"none", "text"}

\* the test of contentTypeMiddleware
PassesContentType(method, media) ==
    ~(method \in {"POST", "DELETE"} /\ media # "none" /\ media # "json")

\* the admin requests of the specification below
AdminRequests ==
    ListRequests \cup DeleteByIDRequests \cup NotifyRequests
      \cup PurgeRequests({<<"1", "d">>})

\* a request to an admin route goes through contentTypeMiddleware, the mux,
\* requireAuth and, for POST /notify, the decoding of the body, and is
\* answered there or handed to its handler
ServeAdmin(c) ==
    /\ CanAccept(c)
    /\ \E r \in AdminRequests, header \in AuthHeaders :
         \E media \in MediaOf(r.op) :
           LET req == [r EXCEPT !.authz = header, !.media = media] IN
           calls' = [calls EXCEPT ![c] =
             IF ~PassesContentType(MethodOf(r.op), media)
             THEN [req EXCEPT !.pc = "done",
                              !.status = StatusUnsupportedMediaType,
                              !.err = "Content-Type must be application/json"]
             ELSE IF ~PassesAuth(header)
             THEN [req EXCEPT !.pc = "done",
                              !.status = StatusUnauthorized,
                              !.err = "unauthorized"]
             ELSE IF r.op = "notify" /\ media = "none"
             THEN [req EXCEPT !.pc = "done",
                              !.status = StatusBadRequest,
                              !.err = "invalid JSON"]
             ELSE req]
    /\ UNCHANGED <<subs, dlog, logSeq, nextId, now, wg, mainPc, pushBudget,
                   env>>

-----------------------------------------------------------------------------

NoCalls(n) == [c \in 1..n |-> NoCall]

StoreNext ==
    \/ \E c \in DOMAIN calls : AcceptRegister(c)
    \/ \E c \in DOMAIN calls : UpsertExec(c)
    \/ \E c \in DOMAIN calls : UpsertReadBack(c)
    \/ \E c \in DOMAIN calls : AcceptUnregister(c)
    \/ \E c \in DOMAIN calls : DeleteSubscriptionByEndpoint(c)
    \/ \E c \in DOMAIN calls : AcceptDeleteByID(c)
    \/ \E c \in DOMAIN calls : DeleteSubscriptionByID(c)

FanoutSteps ==
    \/ \E c \in DOMAIN calls : NotifyAdd(c)
    \/ \E c \in DOMAIN calls : NotifyResolve(c)
    \/ \E c \in DOMAIN calls : Spawn(c)
    \/ \E c \in DOMAIN calls : \E k \in DOMAIN calls[c].g : PushReturn(c, k)
    \/ \E c \in DOMAIN calls : \E k \in DOMAIN calls[c].g : LogDelivery(c, k)
    \/ \E c \in DOMAIN calls : \E k \in DOMAIN calls[c].g : EvictStale(c, k)
    \/ \E c \in DOMAIN calls : \E k \in DOMAIN calls[c].g : Report(c, k)
    \/ \E c \in DOMAIN calls : \E k \in DOMAIN calls[c].g : Release(c, k)
    \/ \E c \in DOMAIN calls : Collect(c)

FanoutNext ==
    \/ FanoutSteps
    \/ \E c \in DOMAIN calls : NotifyReturn(c)

\* the steps of a notify call, the push service answering 201 or 410
FanoutFew ==
    \/ \E c \in DOMAIN calls : NotifyAdd(c)
    \/ \E c \in DOMAIN calls : NotifyResolve(c)
    \/ \E c \in DOMAIN calls : Spawn(c)
    \/ \E c \in DOMAIN calls : \E k \in DOMAIN calls[c].g : PushReturnFew(c, k)
    \/ \E c \in DOMAIN calls : \E k \in DOMAIN calls[c].g : LogDelivery(c, k)
    \/ \E c \in DOMAIN calls : \E k \in DOMAIN calls[c].g : EvictStale(c, k)
    \/ \E c \in DOMAIN calls : \E k \in DOMAIN calls[c].g : Report(c, k)
    \/ \E c \in DOMAIN calls : \E k \in DOMAIN calls[c].g : Release(c, k)
    \/ \E c \in DOMAIN calls : Collect(c)
    \/ \E c \in DOMAIN calls : NotifyReturn(c)

MainNext ==
    \/ Signal
    \/ ShutdownDrained
    \/ ShutdownTimeout
    \/ WaitReturn
    \/ MainExit

\* a database that earlier runs left n subscriptions in
SeedRows(n) ==
    { [id |-> k,
       topic |-> IF k % 3 = 1 THEN "" ELSE IF k % 3 = 2 THEN "news" ELSE "other",
       endpoint |-> k,
       key_p256dh |-> "p1", key_auth |-> "a1", created_at |-> 0] : k \in 1..n }

\* the state after main has opened the database and started the listener
Started(rows, slots, budget) ==
    /\ subs = rows
    /\ dlog = <<>>
    /\ logSeq = 0
    /\ nextId = Cardinality(rows)
    /\ now = 0
    /\ wg = 0
    /\ calls = NoCalls(slots)
    /\ mainPc = "serving"
    /\ pushBudget = budget
    /\ env = ServingEnv

\* any requests, against a fresh database
Init == Started({}, MaxCalls, MaxCalls * Cardinality(Endpoints))

Next ==
    \/ StoreNext
    \/ \E c \in DOMAIN calls : AcceptNotify(c)
    \/ FanoutNext

Spec == Init /\ [][Next]_vars

\* registrations and deletions, against a database holding one subscription
InitStore == Started(SeedRows(1), MaxCalls, 0)

NextStore ==
    \/ StoreNext
    \/ Tick

SpecStore == InitStore /\ [][NextStore]_vars

\* registrations only, against an empty database
InitUpsertRace == Started({}, NumRacers, 0)

NextUpsertRace ==
    \/ \E c \in DOMAIN calls : AcceptRegister(c)
    \/ \E c \in DOMAIN calls : UpsertExec(c)
    \/ \E c \in DOMAIN calls : UpsertReadBack(c)
    \/ Tick

SpecUpsertRace == InitUpsertRace /\ [][NextUpsertRace]_vars

\* one notify call over a batch of subscriptions
InitFanout == Started(SeedRows(NumBatchSubs), 1, NumBatchSubs)

NextFanout ==
    \/ \E c \in DOMAIN calls : AcceptNotify(c)
    \/ FanoutNext

SpecFanout == InitFanout /\ [][NextFanout]_vars

\* one notify call over more subscriptions than the semaphore has slots,
\* the push service answering few of the requests
InitSem == Started(SeedRows(NumFanSubs), 1, SemPushBudget)

NextSem ==
    \/ \E c \in DOMAIN calls : AcceptNotify(c)
    \/ FanoutSteps

SpecSem == InitSem /\ [][NextSem]_vars

\* requests and the shutdown sequence of main
InitShutdown == Started(SeedRows(1), MaxShutdownCalls, MaxShutdownCalls)

NextShutdown ==
    \/ StoreNext
    \/ \E c \in DOMAIN calls : AcceptNotify(c)
    \/ FanoutNext
    \/ MainNext

SpecShutdown == InitShutdown /\ [][NextShutdown]_vars

\* concurrent notify calls and unregistrations over one stored subscription
InitConc == Started(SeedRows(1), NumConcCalls, NumConcCalls)

NextConc ==
    \/ \E c \in DOMAIN calls : AcceptNotify(c)
    \/ FanoutNext
    \/ \E c \in DOMAIN calls : AcceptUnregister(c)
    \/ \E c \in DOMAIN calls : DeleteSubscriptionByEndpoint(c)

SpecConc == InitConc /\ [][NextConc]_vars

SecondsPerHour == MinutesPerHour * SecondsPerMinute
SecondsPerDay == HoursPerDay * SecondsPerHour

\* the clock of the purge specification: 31 days after the oldest entry
PurgeNow == 31 * SecondsPerDay

\* the ages of the entries of the log then: at, just over and just under
\* 30 days, one day, one hour and one minute, and 31, 29 and 10 days
AgesInLog ==
    <<31 * SecondsPerDay,
      30 * SecondsPerDay + 1, 30 * SecondsPerDay, 30 * SecondsPerDay - 1,
      29 * SecondsPerDay, 10 * SecondsPerDay,
      SecondsPerDay + 1, SecondsPerDay, SecondsPerDay - 1,
      SecondsPerHour + 1, SecondsPerHour, SecondsPerHour - 1,
      SecondsPerMinute + 1, SecondsPerMinute, SecondsPerMinute - 1, 0>>

\* a log that earlier notify calls wrote, one entry per age, oldest first
SeedLogOf(ages) ==
    [n \in DOMAIN ages |-> LogRow(n - 1, 1, 201, "", PurgeNow - ages[n])]

SeedLog == SeedLogOf(AgesInLog)

\* a shorter log: one entry older than the default cutoff, one inside it
\* and one just written
FewAgesInLog == <<31 * SecondsPerDay, 10 * SecondsPerDay, 0>>

ShortLog == SeedLogOf(FewAgesInLog)

\* the state after main has started on a database holding one subscription
\* and a log
StartedWithLog(log, slots, budget) ==
    /\ subs = SeedRows(1)
    /\ dlog = log
    /\ logSeq = Len(log)
    /\ nextId = 1
    /\ now = PurgeNow
    /\ wg = 0
    /\ calls = NoCalls(slots)
    /\ mainPc = "serving"
    /\ pushBudget = budget
    /\ env = ServingEnv

\* purge requests against that log
InitPurge == StartedWithLog(SeedLog, MaxPurgeCalls, 0)

NextPurge ==
    \/ \E c \in DOMAIN calls : AcceptPurge(c)
    \/ \E c \in DOMAIN calls : PurgeParse(c)
    \/ \E c \in DOMAIN calls : PurgeExec(c)

SpecPurge == InitPurge /\ [][NextPurge]_vars

\* every kind of request against a database holding that log
InitLog == StartedWithLog(ShortLog, MaxLogCalls, 1)

NextLog ==
    \/ StoreNext
    \/ \E c \in DOMAIN calls : AcceptNotify(c)
    \/ FanoutFew
    \/ \E c \in DOMAIN calls : AcceptPurgeFew(c)
    \/ \E c \in DOMAIN calls : PurgeParse(c)
    \/ \E c \in DOMAIN calls : PurgeExec(c)

SpecLog == InitLog /\ [][NextLog]_vars

\* listings beside registrations and deletes
InitList == Started(SeedRows(NumListSubs), MaxListCalls, 0)

NextList ==
    \/ StoreNext
    \/ \E c \in DOMAIN calls : AcceptList(c)
    \/ \E c \in DOMAIN calls : HandleListSubscriptions(c)

SpecList == InitList /\ [][NextList]_vars

\* registrations, complete or not, beside deletes by endpoint
InitRegister == Started(SeedRows(1), MaxRegCalls, 0)

NextRegister ==
    \/ \E c \in DOMAIN calls : PostSubscription(c)
    \/ \E c \in DOMAIN calls : UpsertExec(c)
    \/ \E c \in DOMAIN calls : UpsertReadBack(c)
    \/ \E c \in DOMAIN calls : AcceptUnregister(c)
    \/ \E c \in DOMAIN calls : DeleteSubscriptionByEndpoint(c)

SpecRegister == InitRegister /\ [][NextRegister]_vars

\* main from its start, on a database that an earlier run left
InitStartup ==
    /\ subs = SeedRows(1)
    /\ dlog = <<>>
    /\ logSeq = 0
    /\ nextId = 1
    /\ now = 0
    /\ wg = 0
    /\ calls = NoCalls(MaxStartCalls)
    /\ mainPc = "start"
    /\ pushBudget = 0
    /\ env \in { EnvOf(keys) : keys \in ConfiguredKeys }

NextStartup ==
    \/ CheckEnv
    \/ ParseKeys
    \/ OpenDB
    \/ ListenAndServe
    \/ StoreNext

SpecStartup == InitStartup /\ [][NextStartup]_vars

\* the test of the key functions
InitKeys ==
    /\ subs = {}
    /\ dlog = <<>>
    /\ logSeq = 0
    /\ nextId = 0
    /\ now = 0
    /\ wg = 0
    /\ calls = NoCalls(0)
    /\ mainPc = "keytest"
    /\ pushBudget = 0
    /\ env = EnvOf([publicKey |-> <<>>, privateKey |-> <<>>])

NextKeys ==
    \/ TestGenerate
    \/ TestParse

SpecKeys == InitKeys /\ [][NextKeys]_vars

\* one broadcast whose request has optional members or not
InitPayload == Started(SeedRows(NumPayloadSubs), 1, NumPayloadSubs)

NextPayload ==
    \/ \E c \in DOMAIN calls : AcceptNotifyWithMembers(c)
    \/ FanoutNext

SpecPayload == InitPayload /\ [][NextPayload]_vars

\* one notify call, the call of the primitive of one of its deliveries
\* never returning; the goroutines of the call are scheduled fairly
InitHang == Started(SeedRows(NumHangSubs), 1, NumHangSubs)

NextHang ==
    \/ \E c \in DOMAIN calls : AcceptNotify(c)
    \/ FanoutFew
    \/ \E c \in DOMAIN calls : \E k \in DOMAIN calls[c].g : Hang(c, k)

SpecHang == InitHang /\ [][NextHang]_vars /\ WF_vars(FanoutFew)

\* two notify calls at once over more subscriptions than one semaphore has
\* slots, the push service answering one request
InitTwoBatches == Started(SeedRows(NumFanSubs), 2, 1)

NextTwoBatches ==
    \/ \E c \in DOMAIN calls : AcceptNotify(c)
    \/ FanoutSteps

SpecTwoBatches == InitTwoBatches /\ [][NextTwoBatches]_vars

\* notify calls and purges against a log whose entries are all old enough to
\* be purged, the push service answering every request
OldAgesInLog == <<31 * SecondsPerDay, 10 * SecondsPerDay>>

OldLog == SeedLogOf(OldAgesInLog)

InitLogIds == StartedWithLog(OldLog, MaxLogCalls, MaxLogCalls)

NextLogIds ==
    \/ \E c \in DOMAIN calls : AcceptNotify(c)
    \/ FanoutFew
    \/ \E c \in DOMAIN calls : AcceptPurgeFew(c)
    \/ \E c \in DOMAIN calls : PurgeParse(c)
    \/ \E c \in DOMAIN calls : PurgeExec(c)

SpecLogIds == InitLogIds /\ [][NextLogIds]_vars

\* registrations and deletes, three requests at once, on a database holding
\* one subscription
InitStoreRace == Started(SeedRows(1), NumRacers, 0)

SpecStoreRace == InitStoreRace /\ [][StoreNext]_vars

\* one notify call, one registration and one unregistration at once, in any
\* order, the push service answering 201 or 410
NoCallOf(op) == \A d \in DOMAIN calls : calls[d].op # op

InitSnapshot == Started(SeedRows(NumSnapshotSubs), 3, NumSnapshotSubs)

NextSnapshot ==
    \/ \E c \in DOMAIN calls : AcceptNotify(c) /\ NoCallOf("notify")
    \/ FanoutFew
    \/ \E c \in DOMAIN calls : AcceptRegister(c) /\ NoCallOf("upsert")
    \/ \E c \in DOMAIN calls : UpsertExec(c)
    \/ \E c \in DOMAIN calls : UpsertReadBack(c)
    \/ \E c \in DOMAIN calls :
          AcceptUnregister(c) /\ NoCallOf("delByEndpoint")
    \/ \E c \in DOMAIN calls : DeleteSubscriptionByEndpoint(c)

SpecSnapshot == InitSnapshot /\ [][NextSnapshot]_vars

\* registrations of one endpoint on a server with or without a welcome
\* message, against a fresh database, the push service answering 201 or 410,
\* and the shutdown
WelcomeMessages == {"", "hello"}

InitWelcome ==
    /\ subs = {}
    /\ dlog = <<>>
    /\ logSeq = 0
    /\ nextId = 0
    /\ now = 0
    /\ wg = 0
    /\ calls = NoCalls(MaxWelcomeCalls)
    /\ mainPc = "serving"
    /\ pushBudget = MaxWelcomeCalls
    /\ env \in { [ServingEnv EXCEPT !.welcome = m] : m \in WelcomeMessages }

NextWelcome ==
    \/ \E c \in DOMAIN calls :
          AcceptRegister(c) /\ calls'[c].endpoint = 1 /\ calls'[c].topic = ""
    \/ \E c \in DOMAIN calls : UpsertExec(c)
    \/ \E c \in DOMAIN calls : UpsertReadBack(c)
    \/ \E c \in DOMAIN calls : WelcomeAdd(c)
    \/ \E c \in DOMAIN calls : WelcomeSleep(c)
    \/ \E c \in DOMAIN calls : Spawn(c)
    \/ \E c \in DOMAIN calls : \E k \in DOMAIN calls[c].g : PushReturnFew(c, k)
    \/ \E c \in DOMAIN calls : \E k \in DOMAIN calls[c].g : LogDelivery(c, k)
    \/ \E c \in DOMAIN calls : \E k \in DOMAIN calls[c].g : EvictStale(c, k)
    \/ \E c \in DOMAIN calls : \E k \in DOMAIN calls[c].g : Report(c, k)
    \/ \E c \in DOMAIN calls : \E k \in DOMAIN calls[c].g : Release(c, k)
    \/ \E c \in DOMAIN calls : Collect(c)
    \/ \E c \in DOMAIN calls : WelcomeReturn(c)
    \/ MainNext

SpecWelcome == InitWelcome /\ [][NextWelcome]_vars

\* one notify call over a batch of subscriptions and the shutdown of main;
\* every goroutine that can run does run, every call of the push primitive
\* returns, Shutdown returns (drained or timed out) and main goes on
ShutdownSteps ==
    \/ ShutdownDrained
    \/ ShutdownTimeout
    \/ WaitReturn
    \/ MainExit

NextDrain ==
    \/ NextFanout
    \/ MainNext

SpecDrain ==
    InitFanout /\ [][NextDrain]_vars
      /\ WF_vars(FanoutNext) /\ WF_vars(ShutdownSteps)

\* requests to the admin routes, with and without the admin key
InitAuth == Started(SeedRows(1), MaxAuthCalls, 1)

NextAuth ==
    \/ \E c \in DOMAIN calls : ServeAdmin(c)
    \/ \E c \in DOMAIN calls : HandleListSubscriptions(c)
    \/ \E c \in DOMAIN calls : DeleteSubscriptionByID(c)
    \/ FanoutNext
    \/ \E c \in DOMAIN calls : PurgeParse(c)
    \/ \E c \in DOMAIN calls : PurgeExec(c)

SpecAuth == InitAuth /\ [][NextAuth]_vars

\* one notify call over one subscription, the push service answering with
\* any status
InitClassify == Started(SeedRows(1), 1, 1)

NextClassify ==
    \/ \E c \in DOMAIN calls : AcceptNotify(c)
    \/ \E c \in DOMAIN calls : NotifyAdd(c)
    \/ \E c \in DOMAIN calls : NotifyResolve(c)
    \/ \E c \in DOMAIN calls : Spawn(c)
    \/ \E c \in DOMAIN calls : \E k \in DOMAIN calls[c].g :
          PushReturnAnyStatus(c, k)
    \/ \E c \in DOMAIN calls : \E k \in DOMAIN calls[c].g : LogDelivery(c, k)
    \/ \E c \in DOMAIN calls : \E k \in DOMAIN calls[c].g : EvictStale(c, k)
    \/ \E c \in DOMAIN calls : \E k \in DOMAIN calls[c].g : Report(c, k)
    \/ \E c \in DOMAIN calls : \E k \in DOMAIN calls[c].g : Release(c, k)
    \/ \E c \in DOMAIN calls : Collect(c)
    \/ \E c \in DOMAIN calls : NotifyReturn(c)

SpecClassify == InitClassify /\ [][NextClassify]_vars

\* one notify call over a batch of subscriptions, its request cancelled and
\* the server shut down at any moment; every goroutine that can run does
\* run, and every call of the push primitive returns
NextCancel ==
    \/ NextFanout
    \/ \E c \in DOMAIN calls : CancelRequest(c)
    \/ MainNext

SpecCancel == InitFanout /\ [][NextCancel]_vars /\ WF_vars(FanoutNext)

\* one notify call over a batch of subscriptions, storage calls failing
NextFault ==
    \/ NextFanout
    \/ \E c \in DOMAIN calls : NotifyResolveFails(c)
    \/ \E c \in DOMAIN calls : \E k \in DOMAIN calls[c].g :
          LogDeliveryFails(c, k)
    \/ \E c \in DOMAIN calls : \E k \in DOMAIN calls[c].g :
          EvictStaleFails(c, k)

SpecFault == InitFanout /\ [][NextFault]_vars

\* concurrent notify calls and unregistrations, the query of the resolve
\* step failing
NextResolveFault ==
    \/ NextConc
    \/ \E c \in DOMAIN calls : NotifyResolveFails(c)

SpecResolveFault == InitConc /\ [][NextResolveFault]_vars

\* notify calls up to their dispatch loop, registrations and unregistrations,
\* over stored subscriptions of three topics
InitTopics == Started(SeedRows(NumTopicSubs), MaxTopicCalls, 0)

NextTopics ==
    \/ \E c \in DOMAIN calls : AcceptNotify(c)
    \/ \E c \in DOMAIN calls : NotifyAdd(c)
    \/ \E c \in DOMAIN calls : NotifyResolve(c)
    \/ \E c \in DOMAIN calls : Spawn(c)
    \/ \E c \in DOMAIN calls : AcceptRegister(c)
    \/ \E c \in DOMAIN calls : UpsertExec(c)
    \/ \E c \in DOMAIN calls : UpsertReadBack(c)
    \/ \E c \in DOMAIN calls : AcceptUnregister(c)
    \/ \E c \in DOMAIN calls : DeleteSubscriptionByEndpoint(c)

SpecTopics == InitTopics /\ [][NextTopics]_vars

-----------------------------------------------------------------------------
(* Properties of the subscription store *)

UpsertCalls == { c \in DOMAIN calls : calls[c].op = "upsert" }

UpsertsOn(e) == { c \in UpsertCalls : calls[c].endpoint = e }

TripleOf(r) == <<r.topic, r.key_p256dh, r.key_auth>>

InputOf(call) == <<call.topic, call.p256dh, call.auth>>

\* C1: when all the registrations racing on an endpoint that had no record
\* have returned (no delete among them), exactly one of them returned
\* created = true, none returned an error, and all returned the same id.
C1_OneCreatedPerRace ==
    \A e \in Endpoints :
        (\A c \in UpsertsOn(e) : calls[c].pc = "done") /\ UpsertsOn(e) # {}
        => /\ Cardinality({ c \in UpsertsOn(e) : calls[c].created }) = 1
           /\ \A c \in UpsertsOn(e) : calls[c].err = ""
           /\ \A c, d \in UpsertsOn(e) : calls[c].id = calls[d].id

\* every racer registered the same endpoint, all have returned, and the
\* stored keys are those of a caller that did not create the record
C1_Witness ==
    \E e \in Endpoints :
        /\ Cardinality(UpsertsOn(e)) = NumRacers
        /\ \A c \in UpsertsOn(e) : calls[c].pc = "done"
        /\ \E c \in UpsertsOn(e), r \in subs :
             /\ ~calls[c].created
             /\ r.endpoint = e
             /\ TripleOf(r) = InputOf(calls[c])
        /\ \E c \in UpsertsOn(e), r \in subs :
             /\ calls[c].created
             /\ r.endpoint = e
             /\ TripleOf(r) # InputOf(calls[c])

\* C2: the (topic, p256dh, auth) of every stored record is the triple one
\* single registration call passed for that endpoint; no record mixes two
\* callers' fields.
C2_NoMixedRecord ==
    \A r \in subs :
        \E c \in UpsertsOn(r.endpoint) :
            /\ calls[c].pc \in {"readback", "done"}
            /\ TripleOf(r) = InputOf(calls[c])

\* two registrations of one endpoint with different triples have both
\* written, and the record holds one of them
C2_Witness ==
    \E r \in subs : \E c, d \in UpsertsOn(r.endpoint) :
        /\ calls[c].pc = "done" /\ calls[d].pc = "done"
        /\ InputOf(calls[c]) # InputOf(calls[d])
        /\ TripleOf(r) = InputOf(calls[c])
        /\ calls[d].created

\* C3: the store never holds two records with the same endpoint.
C3_EndpointUnique ==
    \A r, q \in subs : r.endpoint = q.endpoint => r = q

\* an endpoint without a record was registered twice and has one record
C3_Witness ==
    \E e \in Endpoints :
        /\ Cardinality(UpsertsOn(e)) = 2
        /\ \A c \in UpsertsOn(e) : calls[c].pc = "done" /\ calls[c].err = ""
        /\ Cardinality(RowsByEndpoint(subs, e)) = 1

RowIdentity(r) == [id |-> r.id, endpoint |-> r.endpoint,
                   created_at |-> r.created_at]

\* C4: a registration of an endpoint that has a record changes only topic
\* and keys of that record (id, endpoint and created_at of every record
\* stay, no record is added) and returns created = false with the id the
\* record had; a record with a fresh id is added only when the endpoint had
\* no record.
C4_ReRegisterKeepsId ==
    [][\A c \in UpsertCalls :
         /\ (calls[c].pc = "exec" /\ calls'[c].pc = "readback") =>
               IF RowsByEndpoint(subs, calls[c].endpoint) # {}
               THEN /\ { RowIdentity(r) : r \in subs' }
                         = { RowIdentity(r) : r \in subs }
                    /\ Cardinality(subs') = Cardinality(subs)
               ELSE /\ subs \subseteq subs'
                    /\ { r.id : r \in subs' \ subs } = { calls'[c].newID }
         /\ (calls[c].pc = "readback" /\ calls'[c].pc = "done"
                /\ calls[c].had # NoRow) =>
               /\ calls'[c].err = ""
               /\ ~calls'[c].created
               /\ calls'[c].id = calls[c].had
    ]_vars

-----------------------------------------------------------------------------
(* Properties of the fan-out and of the shutdown *)

NotifyCalls == { c \in DOMAIN calls : calls[c].op = "notify" }

\* between wg.Add(1) and the deferred wg.Done
Registered(c) == calls[c].pc \in {"resolve", "dispatch"}

\* the goroutine of delivery k has its log write and eviction behind it
Written(c, k) == calls[c].g[k].pc \in {"report", "release", "exit"}

\* C5: the WaitGroup counts exactly the notify calls between their wg.Add,
\* which precedes the resolve, and their return; a call has returned only
\* with one result collected per resolved subscriber, every log write and
\* eviction of the batch done; and Wait does not return while a call is
\* registered.
C5_DrainCoversNotify ==
    /\ [](/\ wg = Cardinality({ c \in NotifyCalls : Registered(c) })
          /\ \A c \in NotifyCalls :
               /\ calls[c].pc = "add" => calls[c].g = <<>>
               /\ calls[c].pc = "done" =>
                     /\ calls[c].got = Len(calls[c].subs)
                     /\ \A k \in DOMAIN calls[c].g : Written(c, k))
    /\ [][mainPc = "wait" /\ mainPc' = "waited" =>
             \A c \in NotifyCalls :
                 /\ ~Registered(c)
                 /\ calls[c].pc = "done" =>
                       \A k \in DOMAIN calls[c].g : Written(c, k)]_vars

\* main is in Wait while a registered notify call still has the eviction of
\* a stale subscriber to write
C5_Witness ==
    /\ mainPc = "wait"
    /\ \E c \in NotifyCalls :
         /\ Registered(c)
         /\ \E k \in DOMAIN calls[c].g : calls[c].g[k].pc = "evict"

\* C6: once Wait has returned in the shutdown sequence, neither table is
\* written again.
C6_NoWriteAfterWait ==
    [][(mainPc = "waited" \/ mainPc = "exited")
           => (subs' = subs /\ dlog' = dlog)]_vars

\* deliveries of call c holding a semaphore slot
InFlight(c) ==
    Cardinality({ k \in DOMAIN calls[c].g :
                    calls[c].g[k].pc \in {"sending", "log", "evict", "report",
                                          "release"} })

\* C7: a notify call never has more than 10 deliveries in flight.
C7_AtMostTenInFlight ==
    \A c \in NotifyCalls : InFlight(c) <= pushConcurrency

\* more subscribers than slots: the eleventh delivery was started after a
\* slot came free, and ten are in flight again
C7_Witness ==
    \E c \in NotifyCalls :
        /\ Len(calls[c].subs) > pushConcurrency
        /\ calls[c].i > pushConcurrency
        /\ InFlight(c) = pushConcurrency

\* C8: a notify call invokes the primitive at most once per resolved
\* subscriber, and has invoked it once for each when it returns.
C8_AttemptedOnce ==
    \A c \in NotifyCalls :
        /\ calls[c].pc \in {"dispatch", "done"} =>
              DOMAIN calls[c].g = DOMAIN calls[c].subs
        /\ \A k \in DOMAIN calls[c].g : calls[c].g[k].attempts <= 1
        /\ calls[c].pc = "done" =>
              \A k \in DOMAIN calls[c].subs : calls[c].g[k].attempts = 1

\* a returned call over the whole batch, one delivery a transport error
\* and another one answered 2xx
C8_Witness ==
    \E c \in NotifyCalls :
        /\ calls[c].pc = "done"
        /\ Len(calls[c].subs) = NumBatchSubs
        /\ \E k \in DOMAIN calls[c].g : calls[c].g[k].resp.err # ""
        /\ \E k \in DOMAIN calls[c].g : calls[c].g[k].resp.code = 201

Answered(c, codes) ==
    { k \in DOMAIN calls[c].g :
        calls[c].g[k].resp.err = "" /\ calls[c].g[k].resp.code \in codes }

\* C9: the aggregate a notify call returns over M subscribers has sent =
\* deliveries answered 2xx, staleRemoved = deliveries answered 404 or 410,
\* failed = M - sent, in whatever order the deliveries completed.
C9_Aggregate ==
    \A c \in NotifyCalls :
        calls[c].pc = "done" =>
            /\ calls[c].nr.sent = Cardinality(Answered(c, 200..299))
            /\ calls[c].nr.staleRemoved = Cardinality(Answered(c, {404, 410}))
            /\ calls[c].nr.failed = Len(calls[c].subs) - calls[c].nr.sent
            /\ calls[c].nr.staleRemoved <= calls[c].nr.failed

\* a returned call with a sent and a stale delivery, the stale one having
\* completed first
C9_Witness ==
    \E c \in NotifyCalls :
        /\ calls[c].pc = "done"
        /\ calls[c].nr.sent >= 1
        /\ calls[c].nr.staleRemoved >= 1
        /\ Len(dlog) >= 2
        /\ dlog[1].status_code \in {404, 410}

LogRowsOf(c, k) == { n \in DOMAIN dlog : dlog[n].id \in calls[c].g[k].logIds }

Resolved(call) == { call.subs[k] : k \in DOMAIN call.subs }

\* C12: the resolve step of a notify call yields, each once, exactly the
\* records then stored whose topic equals the request topic, or all records
\* when the request topic is empty; the call dispatches to resolved
\* subscribers only, so with a non-empty request topic never to a subscriber
\* stored with topic "" or with another topic.
C12_ResolvedByTopic ==
    /\ [][\A c \in NotifyCalls :
            (calls[c].pc = "resolve" /\ calls'[c].pc = "dispatch") =>
                /\ Resolved(calls'[c]) =
                      { r \in subs : calls[c].topic = ""
                                        \/ r.topic = calls[c].topic }
                /\ Len(calls'[c].subs) = Cardinality(Resolved(calls'[c]))]_vars
    /\ [](\A c \in NotifyCalls : \A k \in DOMAIN calls[c].g :
             calls[c].g[k].pc # "idle" =>
                 /\ k \in DOMAIN calls[c].subs
                 /\ calls[c].topic # "" =>
                       calls[c].subs[k].topic = calls[c].topic)

\* a call for topic "news" has dispatched to a subscriber while the store
\* holds a record without topic and a record of topic "other", and a call
\* without topic has resolved records of three topics
C12_Witness ==
    /\ \E c \in NotifyCalls :
         /\ calls[c].topic = "news"
         /\ \E k \in DOMAIN calls[c].g : calls[c].g[k].pc = "sending"
         /\ \E r, q \in subs : r.topic = "" /\ q.topic = "other"
    /\ \E c \in NotifyCalls :
         /\ calls[c].topic = ""
         /\ Cardinality({ r.topic : r \in Resolved(calls[c]) }) = 3

\* the tallies the outcomes of the deliveries of call c amount to
TallyOf(c) ==
    [sent |-> Cardinality(Answered(c, 200..299)),
     failed |-> Len(calls[c].subs) - Cardinality(Answered(c, 200..299)),
     staleRemoved |-> Cardinality(Answered(c, {404, 410}))]

\* C13: whatever deliveries of a batch met a transport error, a non-2xx
\* status, a failing log write or a failing eviction write, a notify call
\* whose resolve step succeeded can always go on until it returns, and it
\* returns without error, every resolved subscriber attempted once and
\* counted, and every delivery whose own log write did not fail logged once.
C13_FailuresContained ==
    \A c \in NotifyCalls :
        /\ calls[c].pc \in {"add", "resolve", "dispatch"} => ENABLED NextFault
        /\ (calls[c].pc = "done" /\ calls[c].err = "") =>
              /\ calls[c].status = StatusOK
              /\ calls[c].got = Len(calls[c].subs)
              /\ calls[c].nr = TallyOf(c)
              /\ \A k \in DOMAIN calls[c].subs :
                    /\ calls[c].g[k].attempts = 1
                    /\ ~calls[c].g[k].logErr =>
                          /\ Cardinality(LogRowsOf(c, k)) = 1
                          /\ \A n \in LogRowsOf(c, k) :
                                dlog[n].status_code = calls[c].g[k].statusCode

\* a returned call: the log write and the eviction write of a stale
\* delivery both failed, and a sibling delivery was sent and logged
C13_Witness ==
    \E c \in NotifyCalls :
        /\ calls[c].pc = "done"
        /\ \E k \in DOMAIN calls[c].g :
             calls[c].g[k].logErr /\ calls[c].g[k].delErr
        /\ \E k \in Answered(c, 200..299) : LogRowsOf(c, k) # {}
        /\ Len(calls[c].subs) >= 2

\* what the caller of notify receives: the status and the body of the answer
AnswerOf(call) == <<call.status, call.nr>>

\* C14: the answer of a notify call whose resolve step met a storage
\* failure differs from the answer of a call that succeeded over an empty
\* subscriber set.
C14_ResolveFailureSurfaced ==
    \A c, d \in NotifyCalls :
        (/\ calls[c].pc = "done" /\ calls[c].err # ""
         /\ calls[d].pc = "done" /\ calls[d].err = ""
         /\ calls[d].subs = <<>>)
        => AnswerOf(calls[c]) # AnswerOf(calls[d])

StoredIds == { r.id : r \in subs }

\* C15: of a notify call that returned over one subscriber, the tallies
\* (sent, failed, staleRemoved) and the store are: (0, 1, 0) and the record
\* kept after a transport error; (1, 0, 0) and the record kept after a
\* status from 200 to 299; (0, 1, 1) and the record deleted after 404 or 410;
\* (0, 1, 0) and the record kept after any other status.
C15_Classification ==
    \A c \in NotifyCalls :
        (calls[c].pc = "done" /\ Len(calls[c].subs) = 1) =>
            LET r == calls[c].g[1].resp
                id == calls[c].subs[1].id
                nr == calls[c].nr
            IN IF r.err # ""
               THEN nr = [sent |-> 0, failed |-> 1, staleRemoved |-> 0]
                    /\ id \in StoredIds
               ELSE IF r.code >= 200 /\ r.code < 300
               THEN nr = [sent |-> 1, failed |-> 0, staleRemoved |-> 0]
                    /\ id \in StoredIds
               ELSE IF r.code \in {404, 410}
               THEN nr = [sent |-> 0, failed |-> 1, staleRemoved |-> 1]
                    /\ id \notin StoredIds
               ELSE nr = [sent |-> 0, failed |-> 1, staleRemoved |-> 0]
                    /\ id \in StoredIds

\* a call has returned whose only delivery was answered 300
C15_Witness ==
    \E c \in NotifyCalls :
        /\ calls[c].pc = "done" /\ Len(calls[c].subs) = 1
        /\ calls[c].g[1].resp.err = "" /\ calls[c].g[1].resp.code = 300
        /\ calls[c].nr.failed = 1

\* the deliveries of call c whose eviction write deleted a record
RemovedBy(c) == { k \in DOMAIN calls[c].g : calls[c].g[k].removed }

\* C16: the staleRemoved a notify call returns is the number of records that
\* call deleted from the store.
C16_StaleRemovedIsRemoved ==
    \A c \in NotifyCalls :
        calls[c].pc = "done" =>
            calls[c].nr.staleRemoved = Cardinality(RemovedBy(c))

\* C17: a notify call that has started (wg.Add done) returns, if every call
\* of the push primitive returns, whether or not its request was cancelled
\* or the server is shutting down; when it deregisters (wg.Done), every
\* resolved subscriber has been attempted once and logged once and the
\* tallies are those of the outcomes; the process never ends with the call
\* still registered.
C17_RunsToCompletion ==
    /\ (calls[1].op = "notify" /\ Registered(1)) ~> (calls[1].pc = "done")
    /\ [](calls[1].pc = "done" =>
             /\ wg = 0
             /\ calls[1].nr = TallyOf(1)
             /\ \A k \in DOMAIN calls[1].subs :
                   /\ calls[1].g[k].attempts = 1
                   /\ Cardinality(LogRowsOf(1, k)) = 1)
    /\ [](mainPc = "exited" => ~Registered(1))

DeleteCalls == { c \in DOMAIN calls : calls[c].op \in {"delByEndpoint", "delByID"} }

\* the records a delete call addresses
Addressed(call, rows) ==
    IF call.op = "delByEndpoint"
    THEN { r \in rows : r.endpoint = call.endpoint }
    ELSE { r \in rows : r.id = call.delId }

\* C18: a delete by endpoint or by id answers success (204, no error)
\* whether or not a record matches, removes the matching records and no
\* other, so leaves the store unchanged when none matches; the same delete
\* after it finds nothing to remove and answers the same.
C18_DeleteIdempotent ==
    [][\A c \in DeleteCalls :
         (calls[c].pc = "exec" /\ calls'[c].pc = "done") =>
             /\ calls'[c].status = StatusNoContent /\ calls'[c].err = ""
             /\ subs' = subs \ Addressed(calls[c], subs)
             /\ Addressed(calls[c], subs) = {} => subs' = subs
             /\ Addressed(calls[c], subs') = {}
             /\ \A d \in DeleteCalls :
                   (/\ calls[d].pc = "done" /\ calls[d].op = calls[c].op
                    /\ calls[d].endpoint = calls[c].endpoint
                    /\ calls[d].delId = calls[c].delId
                    /\ Addressed(calls[c], subs) = {})
                   => calls'[c].status = calls[d].status /\ subs' = subs
    ]_vars

\* the same delete has answered twice, the first time for a stored record
C18_Witness ==
    \E c, d \in DeleteCalls :
        /\ c # d
        /\ calls[c].op = calls[d].op
        /\ calls[c].endpoint = calls[d].endpoint
        /\ calls[c].delId = calls[d].delId
        /\ calls[c].status = StatusNoContent
        /\ calls[d].status = StatusNoContent
        /\ Addressed(calls[c], SeedRows(1)) # {}
        /\ subs = {}

PurgeCalls == { c \in DOMAIN calls : calls[c].op = "purge" }

RECURSIVE NumberOf(_)
\* the number a string of at most nine digits writes
NumberOf(digits) ==
    IF digits = <<>> THEN 0
    ELSE 10 * NumberOf(SubSeq(digits, 1, Len(digits) - 1))
           + DigitValue(digits[Len(digits)])

UnitSeconds(unit) ==
    IF unit = "d" THEN SecondsPerDay
    ELSE IF unit = "h" THEN SecondsPerHour ELSE SecondsPerMinute

\* the entries of rows that are not strictly older, at clock sec, than the
\* age a token of the form digits-unit writes; all of them when the age
\* is longer than the clock has run
NotOlderThan(rows, token, sec) ==
    LET digits == SubSeq(token, 1, Len(token) - 1)
        unit == UnitSeconds(token[Len(token)])
    IN IF Len(digits) > 9 \/ NumberOf(digits) > sec \div unit
       THEN rows
       ELSE SelectSeq(rows,
                LAMBDA row : row.sent_at >= sec - NumberOf(digits) * unit)

\* C19: a purge deletes exactly the log entries whose sent_at is strictly
\* before the clock minus the age of its token, keeps the others, and
\* answers the number of entries it deleted.
C19_PurgeDeletesOlder ==
    [][\A c \in PurgeCalls :
         (calls[c].pc = "exec" /\ calls'[c].pc = "done") =>
             /\ dlog' = NotOlderThan(dlog, OlderThanOf(calls[c].token), now)
             /\ calls'[c].deleted = Len(dlog) - Len(dlog')]_vars

\* a token that is one or more digits followed by one of d, h, m
WellFormed(token) ==
    \E u \in {"d", "h", "m"} :
        \E n \in 1..Len(token) :
            /\ Len(token) = n + 1
            /\ token[n + 1] = u
            /\ \A k \in 1..n :
                 token[k] \in {"0", "1", "2", "3", "4", "5", "6", "7", "8", "9"}

\* C20 as stated: a purge whose token is not of the form digits-unit is
\* rejected with an error and deletes nothing; a purge whose token is of
\* that form is accepted.
C20_MalformedRejected ==
    [][\A c \in PurgeCalls :
         /\ (calls[c].pc = "parse" /\ calls'[c].pc # "parse") =>
               /\ dlog' = dlog
               /\ IF WellFormed(calls[c].token)
                  THEN calls'[c].pc = "exec" /\ calls'[c].err = ""
                  ELSE /\ calls'[c].pc = "done"
                       /\ calls'[c].status = StatusBadRequest
                       /\ calls'[c].err # ""
         /\ (calls[c].pc = "exec" /\ calls'[c].pc = "done") =>
               /\ WellFormed(calls[c].token)
               /\ calls'[c].status = StatusOK]_vars

\* C20, amended: a purge whose token is not empty and not of the form
\* digits-unit is rejected with an error and deletes nothing; a purge
\* whose token is of that form is accepted, and a purge without token
\* is accepted and runs as one with the token 30d.
C20_NonEmptyMalformedRejected ==
    [][\A c \in PurgeCalls :
         /\ (calls[c].pc = "parse" /\ calls'[c].pc # "parse") =>
               /\ dlog' = dlog
               /\ IF calls[c].token = <<>> \/ WellFormed(calls[c].token)
                  THEN calls'[c].pc = "exec" /\ calls'[c].err = ""
                  ELSE /\ calls'[c].pc = "done"
                       /\ calls'[c].status = StatusBadRequest
                       /\ calls'[c].err # ""
         /\ (calls[c].pc = "parse" /\ calls'[c].pc # "parse"
                /\ calls[c].token = <<>>) =>
               calls'[c].dur = parseDuration(<<"3", "0", "d">>).dur
         /\ (calls[c].pc = "exec" /\ calls'[c].pc = "done") =>
               /\ calls[c].token = <<>> \/ WellFormed(calls[c].token)
               /\ calls'[c].status = StatusOK]_vars

\* a purge with a malformed token was rejected, the log as it was, and a
\* purge without token then deleted the entries older than 30 days
C20_Witness ==
    \E c, d \in PurgeCalls :
        /\ calls[c].token = <<"3", "0", "s">>
        /\ calls[c].status = StatusBadRequest
        /\ calls[d].token = <<>>
        /\ calls[d].status = StatusOK
        /\ calls[d].deleted = 2
        /\ Len(dlog) = Len(SeedLog) - 2

-----------------------------------------------------------------------------
(* The delivery log is append-only but for purge *)

\* the entries of a log
EntriesOf(log) == { log[n] : n \in DOMAIN log }

\* log continues old: every entry of old is there, unchanged and in place
Continues(log, old) ==
    /\ Len(log) >= Len(old)
    /\ SubSeq(log, 1, Len(old)) = old

\* the step is the DELETE of a purge request some caller made
PurgeRuns ==
    \E c \in PurgeCalls : calls[c].pc = "exec" /\ calls'[c].pc = "done"

-----------------------------------------------------------------------------
(* The admin listing carries no key material *)

ListCalls == { c \in DOMAIN calls : calls[c].op = "list" }

\* the key pairs a record may hold
KeyPairs == { <<in[2], in[3]>> : in \in UpsertInputs } \cup { <<"p3", "a3">> }

\* the stores that differ from rows in keys only
ReKeyed(rows) ==
    { { [r EXCEPT !.key_p256dh = pick[r.id][1], !.key_auth = pick[r.id][2]]
          : r \in rows }
        : pick \in [{ r.id : r \in rows } -> KeyPairs] }

\* a record without its keys
Redacted(r) ==
    [id |-> r.id, topic |-> r.topic, endpoint |-> r.endpoint,
     created_at |-> r.created_at]

\* C22: the admin listing answers, for a topic filter, the records that
\* listByTopic returns for that filter, each without p256dh and auth, and
\* the answer is the same for every store that differs from the present
\* one in keys only.
C22_ListingWithoutKeys ==
    [][\A c \in ListCalls :
         (calls[c].pc = "exec" /\ calls'[c].pc = "done") =>
            LET out == calls'[c].listing
                full == GetSubscriptionsByTopic(subs, calls[c].topic)
            IN /\ Len(out) = Len(full)
               /\ \A n \in DOMAIN out :
                     /\ DOMAIN out[n] = {"id", "topic", "endpoint", "created_at"}
                     /\ \E r \in EntriesOf(full) :
                           \A name \in DOMAIN out[n] :
                               out[n][name] = Redacted(r)[name]
               /\ \A r \in EntriesOf(full) :
                     \E n \in DOMAIN out : out[n]["id"] = r.id
               /\ \A other \in ReKeyed(subs) :
                     ListingOf(other, calls[c].topic) = out]_vars

\* a listing for the topic news answered one record of a store that holds
\* two records with different keys
C22_Witness ==
    \E c \in ListCalls :
        /\ calls[c].pc = "done"
        /\ calls[c].topic = "news"
        /\ Len(calls[c].listing) = 1
        /\ Cardinality(subs) = 2
        /\ \E r, q \in subs :
              r.key_p256dh # q.key_p256dh /\ r.key_auth # q.key_auth

-----------------------------------------------------------------------------
(* Admin operations need the admin key *)

AdminOps == {"list", "delByID", "notify", "purge"}

\* the request of the call does not carry the admin key as bearer token
Unauthorized(call) ==
    /\ call.op \in AdminOps
    /\ call.authz # BearerPrefix \o AdminKey

\* C23: a request to an admin operation (list, delete by id, notify,
\* purge) whose Authorization header is not Bearer and the admin key is
\* answered 401 at once and has no effect: store and log stay as they are,
\* nothing is added to the wait group, no delivery is dispatched.
C23_UnauthorizedRejected ==
    [][\A c \in DOMAIN calls :
         (Unauthorized(calls'[c]) /\ calls'[c] # calls[c]) =>
            /\ calls[c].op = "none"
            /\ calls'[c].pc = "done"
            /\ calls'[c].status = StatusUnauthorized
            /\ calls'[c].g = <<>>
            /\ UNCHANGED <<subs, dlog, logSeq, wg, pushBudget>>]_vars

-----------------------------------------------------------------------------
(* The answers of a registration *)

\* C24: a registration is answered 201 exactly when its upsert added a
\* record and 200 exactly when it updated the record the endpoint had, in
\* both cases with the id of that record; a registration without endpoint,
\* p256dh or auth is answered 400 at once and the store stays as it was.
C24_RegistrationAnswers ==
    [][\A c \in DOMAIN calls :
         /\ (calls[c].op = "upsert" /\ calls[c].pc = "readback"
                /\ calls'[c].pc = "done") =>
               /\ calls'[c].status = StatusCreated <=> calls[c].had = NoRow
               /\ calls'[c].status = StatusOK <=> calls[c].had # NoRow
               /\ calls'[c].id = IF calls[c].had = NoRow
                                 THEN calls[c].newID ELSE calls[c].had
         /\ (calls[c].op = "none" /\ calls'[c].op = "upsert") =>
               /\ subs' = subs
               /\ IF \/ calls'[c].endpoint = NoEndpoint
                     \/ calls'[c].p256dh = ""
                     \/ calls'[c].auth = ""
                  THEN /\ calls'[c].pc = "done"
                       /\ calls'[c].status = StatusBadRequest
                  ELSE calls'[c].pc = "exec"]_vars

-----------------------------------------------------------------------------
(* The signing keys *)

\* the characters DecodeString reads or skips
URLCharacters ==
    { URLAlphabet[v] : v \in DOMAIN URLAlphabet } \cup {"\r", "\n"}

\* not base64url: a character outside the alphabet, or a last group of one
\* character
Undecodable(str) ==
    \/ \E n \in DOMAIN str : str[n] \notin URLCharacters
    \/ Len(SelectSeq(str, LAMBDA ch : ch \notin {"\r", "\n"})) % 4 = 1

\* the uncompressed forms of the points of the group
PointForms ==
    { Marshal(ScalarBaseMult(d).x, ScalarBaseMult(d).y)
        : d \in 1..(GroupOrder - 1) }

\* the configured keys do not parse
KeysFail ==
    \/ ParseVAPIDKeys(env.publicKey, env.privateKey).err # ""
    \/ Undecodable(env.publicKey)
    \/ Undecodable(env.privateKey)
    \/ DecodeString(env.publicKey).bytes \notin PointForms

C26_GenerateParseRoundTrip ==
    (mainPc = "keytest" /\ env.parsed) =>
       /\ env.err = ""
       /\ EncodeToString(Marshal(env.key.x, env.key.y)) = env.publicKey
       /\ Len(env.publicKey) = 7
       /\ \A n \in DOMAIN env.publicKey :
             \E v \in DOMAIN URLAlphabet : URLAlphabet[v] = env.publicKey[n]

\* the keys of the scalar 100 were generated and parsed: a point whose x
\* takes one byte and whose y takes two
C26_Witness ==
    /\ mainPc = "keytest"
    /\ env.parsed
    /\ env.err = ""
    /\ env.key = [x |-> 18, y |-> 257, d |-> 100]
    /\ env.publicKey = <<"B", "A", "A", "S", "A", "Q", "E">>

-----------------------------------------------------------------------------
(* The payload *)

-----------------------------------------------------------------------------
(* Log before eviction; a hung delivery; one semaphore per call *)

\* C28: when a delivery classified stale comes to its deleteById (whether
\* the delete then succeeds or not), the log holds the entry of that
\* attempt: the log append came first, and no subscriber is evicted
\* without such an entry, also when the log write failed.
C28_LogBeforeEvict ==
    [][\A c \in NotifyCalls : \A k \in DOMAIN calls[c].g :
         (calls[c].g[k].pc = "evict" /\ calls'[c].g[k].pc # "evict") =>
            \E row \in EntriesOf(dlog) :
                /\ row.id \in calls[c].g[k].logIds
                /\ row.subscription_id = calls[c].subs[k].id
                /\ row.status_code = calls[c].g[k].statusCode]_vars

\* the primitive call of delivery h of the one call of the hang
\* specification never returns
Hung(h) == h \in DOMAIN calls[1].g /\ calls[1].g[h].hung

\* the deliveries of that call other than h
\* have been dispatched and logged and are over, and one slot is held
OthersDone(h) ==
    /\ h \in DOMAIN calls[1].g
    /\ calls[1].i = Len(calls[1].subs)
    /\ \A k \in DOMAIN calls[1].g :
          k # h => /\ calls[1].g[k].attempts = 1
                   /\ calls[1].g[k].logIds # {}
                   /\ calls[1].g[k].pc = "exit"
    /\ calls[1].g[h].pc = "sending"
    /\ calls[1].sem = 1

\* C29: when the primitive call of one delivery of a batch never returns,
\* every other resolved subscriber of the batch is eventually dispatched
\* and logged, and from then on only the slot of the hung delivery is held.
C29_OthersStillDelivered ==
    \A h \in 1..NumHangSubs :
        Hung(h) ~> []OthersDone(h)

\* the first delivery of a batch of NumHangSubs hangs, the others are
\* logged and over
C29_Witness ==
    /\ Len(calls[1].g) = NumHangSubs
    /\ Hung(1)
    /\ OthersDone(1)
    /\ Len(dlog) = NumHangSubs - 1
    /\ calls[1].pc = "dispatch"

\* C30: every notify call has its own semaphore: a call never has more than
\* 10 deliveries in flight, and its dispatch loop can start the next
\* delivery exactly when fewer than 10 of its own deliveries hold a slot,
\* whatever slots another call holds.
C30_SemaphorePerCall ==
    \A c \in NotifyCalls :
        /\ InFlight(c) <= pushConcurrency
        /\ calls[c].sem = InFlight(c)
        /\ (calls[c].pc = "dispatch" /\ calls[c].i < Len(calls[c].subs)) =>
              (ENABLED Spawn(c) <=> InFlight(c) < pushConcurrency)

\* two calls run at once and together have more than 10 deliveries in
\* flight, one of them 10 with subscriptions left to dispatch
C30_Witness ==
    \E c, d \in NotifyCalls :
        /\ c # d
        /\ InFlight(c) = pushConcurrency
        /\ calls[c].i < Len(calls[c].subs)
        /\ InFlight(d) > 0
        /\ InFlight(c) + InFlight(d) > pushConcurrency

-----------------------------------------------------------------------------
(* Ids of the delivery log *)

\* the ids of a log are strictly increasing in its order
Increasing(log) ==
    \A i, j \in DOMAIN log : i < j => log[i].id < log[j].id

\* C31: the ids of the delivery log are strictly increasing in append order
\* and never reused: the log is always in increasing order of id, no id
\* exceeds the highest id assigned so far (logSeq, the sqlite_sequence row
\* of the table, which never decreases), and every entry a step appends has
\* an id above it, so above the id of every entry ever written, purged ones
\* included.
C31_LogIdsIncrease ==
    [][/\ Increasing(dlog')
       /\ logSeq' >= logSeq
       /\ \A row \in EntriesOf(dlog) : row.id <= logSeq
       /\ \A row \in EntriesOf(dlog') \ EntriesOf(dlog) :
             row.id > logSeq /\ row.id <= logSeq']_vars

\* a purge deleted every entry of the log, the one with the highest id
\* included, and a notify call appended an entry afterwards: its id is above
\* the ids of the purged entries
C31_Witness ==
    /\ \E c \in PurgeCalls :
         calls[c].pc = "done" /\ calls[c].deleted = Len(OldLog)
    /\ Len(dlog) = 1
    /\ dlog[1].id = Len(OldLog) + 1

-----------------------------------------------------------------------------
(* What UpsertSubscription returns *)

\* C32: an UpsertSubscription that returns without error returns created =
\* true exactly when its own statement inserted a record (the endpoint had
\* none when it ran) and returns the id of the record its statement
\* inserted or updated, whatever upserts and deletes of the endpoint run
\* beside it.
C32_ReturnsOwnWrite ==
    [][\A c \in UpsertCalls :
         (calls[c].pc = "readback" /\ calls'[c].pc = "done"
             /\ calls'[c].err = "") =>
            /\ calls'[c].created <=> calls[c].had = NoRow
            /\ calls'[c].id = IF calls[c].had = NoRow
                              THEN calls[c].newID ELSE calls[c].had]_vars

\* C33: an UpsertSubscription that returns an error has left the store as
\* it was: its INSERT ... ON CONFLICT created or updated no record (rows,
\* the RowsAffected of that statement, is 0), also when the error is that
\* of the read-back query.
C33_ErrorLeavesStore ==
    \A c \in UpsertCalls :
        (calls[c].pc = "done" /\ calls[c].err = "lookup subscription id") =>
           calls[c].rows = 0

-----------------------------------------------------------------------------
(* What a notify call changes in the store *)

\* the step is one of notify call c
NotifySteps(c) == calls'[c].op = "notify" /\ calls'[c] # calls[c]

\* the ids of the subscribers whose delivery in call c was answered 404 or
\* 410
StaleIn(c) == { calls[c].subs[k].id : k \in Answered(c, {404, 410}) }

\* C34: a step of a notify call changes the store only by deleting records
\* whose delivery in that call was answered 404 or 410: every other record
\* (delivered, failed with a transport error or any other status, or not
\* resolved by the call) stays in the store with all its fields, and no
\* record is added.
C34_NotifyOnlyEvictsStale ==
    [][\A c \in DOMAIN calls :
         NotifySteps(c) =>
            /\ subs' \subseteq subs
            /\ \A r \in subs \ subs' : r.id \in StaleIn(c)]_vars

\* a notify call has returned: one of its deliveries was answered 410 and
\* its record is gone, another was answered 500 and its record is in the
\* store as it was seeded
C34_Witness ==
    \E c \in NotifyCalls :
        /\ calls[c].pc = "done"
        /\ \E k \in Answered(c, {StatusGone}) :
             \A r \in subs : r.id # calls[c].subs[k].id
        /\ \E k \in Answered(c, {StatusInternalServerError}) :
             calls[c].subs[k] \in subs \cap SeedRows(NumBatchSubs)

-----------------------------------------------------------------------------
(* A notify call works on the subscribers it resolved *)

\* every subscriber of the snapshot of call c was attempted once and has one
\* log row, with its id, written by the call
AllAttemptedAndLogged(c) ==
    /\ DOMAIN calls[c].g = DOMAIN calls[c].subs
    /\ \A k \in DOMAIN calls[c].subs :
         /\ calls[c].g[k].attempts = 1
         /\ Cardinality(LogRowsOf(c, k)) = 1
         /\ \A n \in LogRowsOf(c, k) :
              dlog[n].subscription_id = calls[c].subs[k].id

\* C35: a notify call works on the subscribers its resolve step found: the
\* list never changes afterwards, whatever is registered or unregistered
\* meanwhile, deliveries are started for members of that list only, and
\* when the call returns every member has been attempted once and has one
\* log row with its id, whether or not a record with that id is still
\* stored.
C35_Snapshot ==
    [][\A c \in DOMAIN calls :
         /\ (calls[c].op = "notify" /\ calls[c].pc \notin {"add", "resolve"})
               => /\ calls'[c].subs = calls[c].subs
                  /\ DOMAIN calls'[c].g = DOMAIN calls[c].subs
         /\ (calls[c].op = "notify" /\ calls[c].pc = "resolve"
                /\ calls'[c].pc # "resolve")
               => calls'[c].subs = GetSubscriptionsByTopic(subs, calls[c].topic)
         /\ (calls[c].op = "notify" /\ calls[c].pc # "done"
                /\ calls'[c].pc = "done")
               => AllAttemptedAndLogged(c)']_vars

\* a notify call for every topic has dispatched all it resolved; a record
\* registered since is in the store and not among them; the subscriber it
\* resolved was unregistered since, was attempted (answered 201) and has its
\* log row, whose subscription_id is the id of no stored record
C35_Witness ==
    \E c \in NotifyCalls :
        /\ calls[c].topic = ""
        /\ calls[c].pc = "dispatch"
        /\ calls[c].i = Len(calls[c].subs)
        /\ \E r \in subs : \A k \in DOMAIN calls[c].subs :
              calls[c].subs[k].id # r.id
        /\ \E k \in Answered(c, {201}) :
              /\ \A r \in subs : r.id # calls[c].subs[k].id
              /\ \E n \in LogRowsOf(c, k) :
                    dlog[n].subscription_id = calls[c].subs[k].id

-----------------------------------------------------------------------------
(* Stale eviction deletes by id *)

\* C36: the eviction of a stale subscriber removes the record with the id
\* of the subscriber that was answered 404 or 410 and no other: a record of
\* the same endpoint that was unregistered and registered again, under a
\* new id, while the notify call ran stays in the store.
C36_EvictsById ==
    [][\A c \in DOMAIN calls : \A k \in DOMAIN calls[c].g :
         (calls[c].g[k].pc = "evict" /\ calls'[c].g[k].pc # "evict") =>
            /\ k \in Answered(c, {404, 410})
            /\ subs' = { r \in subs : r.id # calls[c].subs[k].id }]_vars

\* the delivery to a subscriber was answered 410 and its eviction is over;
\* it deleted nothing, and the store holds a record of the subscriber's
\* endpoint under another id, registered while the call ran
C36_Witness ==
    \E c \in NotifyCalls : \E k \in Answered(c, {StatusGone}) :
        /\ calls[c].g[k].pc \notin {"idle", "sending", "log", "evict"}
        /\ ~calls[c].g[k].removed
        /\ \E r \in subs :
             /\ r.endpoint = calls[c].subs[k].endpoint
             /\ r.id # calls[c].subs[k].id

-----------------------------------------------------------------------------
(* The welcome notification *)

\* the registrations whose welcome goroutine is running
PendingWelcomes == { c \in DOMAIN calls : WelcomePending(c) }

\* C37: a welcome notification is started only for a registration that
\* returned created = true on a server with a welcome message, in a step
\* that adds one to the WaitGroup; it is sent to the subscriber of that
\* registration alone; the WaitGroup counts every started welcome until its
\* delivery is over (attempted once, logged, evicted if stale, reported)
\* and its wg.Done has run; and wg.Wait never returns while one is pending.
C37_WelcomeCounted ==
    [][/\ \A c \in DOMAIN calls :
            /\ (~WelcomePending(c) /\ WelcomePending(c)') =>
                  /\ calls[c].created /\ calls[c].err = ""
                  /\ calls[c].status = StatusCreated
                  /\ env.welcome # ""
                  /\ wg' = wg + 1
            /\ WelcomePending(c) =>
                  /\ calls'[c].subs \in {<<>>, <<WelcomeSub(calls[c])>>}
                  /\ WelcomeSub(calls[c]).id = calls[c].newID
                  /\ \A k \in DOMAIN calls'[c].g :
                        calls'[c].g[k].payload \in
                           {NoPayload,
                            pushPayload([NoRequest EXCEPT
                                            !.title = env.welcome])}
            /\ (WelcomePending(c) /\ ~WelcomePending(c)') =>
                  /\ calls'[c].pc = "done"
                  /\ Len(calls[c].g) = 1
                  /\ calls[c].g[1].pc \in {"release", "exit"}
                  /\ calls[c].g[1].attempts = 1
                  /\ Cardinality(LogRowsOf(c, 1)) = 1
                  /\ IsStale(calls[c].g[1].statusCode) =>
                        \A r \in subs : r.id # calls[c].id
                  /\ wg' = wg - 1
       /\ wg = Cardinality(PendingWelcomes)
       /\ (mainPc = "wait" /\ mainPc' = "waited") => PendingWelcomes = {}
      ]_vars

\* main is in wg.Wait after a drained shutdown while the welcome of a
\* registration that created its record is pending, answered 410 and about
\* to evict; the other registration updated that record and started none
C37_Witness ==
    /\ mainPc = "wait"
    /\ wg = 1
    /\ \E c \in PendingWelcomes :
         /\ calls[c].created
         /\ calls[c].pc = "dispatch"
         /\ calls[c].g[1].pc = "evict"
         /\ Len(dlog) = 1
    /\ \E c \in UpsertCalls :
         /\ calls[c].pc = "done" /\ calls[c].err = "" /\ ~calls[c].created
         /\ calls[c].g = <<>>

-----------------------------------------------------------------------------
(* Termination of the fan-out and of the drain *)

\* C38: when every call of the push primitive returns, a notify call that
\* has registered (wg.Add) returns; the WaitGroup is zero whenever no
\* notify call is registered; and main does not stay in wg.Wait.
C38_NotifyTerminates ==
    /\ (calls[1].op = "notify" /\ Registered(1)) ~> (calls[1].pc = "done")
    /\ [](~(calls[1].op = "notify" /\ Registered(1)) => wg = 0)
    /\ (mainPc = "wait") ~> (mainPc # "wait")

====
